---------------------------- MODULE Spec2Model ----------------------------
(***************************************************************************)
(* The Lox tree-sitter parser: the generated lexer automaton (ts_lex),     *)
(* the lexical modes, the two-tier parse table and the parse actions of    *)
(* src/tree-sitter/src/parser.c, executed by the shift-reduce engine, tree *)
(* builder and error recovery described in spec.md sections 4.3 to 4.5.    *)
(***************************************************************************)
EXTENDS Integers, Sequences, FiniteSets, TLC

(***************************************************************************)
(* Sizes of the generated tables.                                          *)
(***************************************************************************)
STATE_COUNT == 30
LARGE_STATE_COUNT == 4
SYMBOL_COUNT == 36
TOKEN_COUNT == 24
FIELD_COUNT == 6
PRODUCTION_ID_COUNT == 5

(***************************************************************************)
(* Symbol ids.                                                             *)
(***************************************************************************)
ts_builtin_sym_end == 0
anon_sym_SEMI == 1
anon_sym_print == 2
anon_sym_COMMA == 3
anon_sym_EQ_EQ == 4
anon_sym_BANG_EQ == 5
anon_sym_LT == 6
anon_sym_LT_EQ == 7
anon_sym_GT == 8
anon_sym_GT_EQ == 9
anon_sym_PLUS == 10
anon_sym_DASH == 11
anon_sym_STAR == 12
anon_sym_SLASH == 13
anon_sym_QMARK == 14
anon_sym_COLON == 15
anon_sym_BANG == 16
anon_sym_LPAREN == 17
anon_sym_RPAREN == 18
sym_number == 19
sym_string == 20
anon_sym_true == 21
anon_sym_false == 22
sym_nil == 23
sym_program == 24
sym__statement == 25
sym_expression_statement == 26
sym_print_statement == 27
sym__expression == 28
sym_binary_expression == 29
sym_ternary_expression == 30
sym_unary_expression == 31
sym_group_expression == 32
sym__literal_expression == 33
sym_boolean == 34
aux_sym_program_repeat1 == 35

(***************************************************************************)
(* ts_symbol_metadata: the visible and the named flag of every symbol.     *)
(***************************************************************************)
\* the flags with the repetition helper visible
ts_symbol_visible_repeat ==
    [s \in 0..(SYMBOL_COUNT - 1) |->
        s \notin {ts_builtin_sym_end, sym__statement, sym__expression,
                  sym__literal_expression}]

ts_symbol_visible ==
    [s \in 0..(SYMBOL_COUNT - 1) |->
        s \notin {ts_builtin_sym_end, sym__statement, sym__expression,
                  sym__literal_expression, aux_sym_program_repeat1}]

ts_symbol_named ==
    [s \in 0..(SYMBOL_COUNT - 1) |->
        s \in {ts_builtin_sym_end, sym_number, sym_string, sym_nil}
              \cup (sym_program..sym_boolean)]

(***************************************************************************)
(* Field ids, field map slices and entries.                                *)
(***************************************************************************)
field_condition == 1
field_else == 2
field_expression == 3
field_left == 4
field_right == 5
field_then == 6

ts_field_map_slices ==
    (0 :> [index |-> 0, length |-> 0]) @@
    (1 :> [index |-> 0, length |-> 1]) @@
    (2 :> [index |-> 1, length |-> 1]) @@
    (3 :> [index |-> 2, length |-> 2]) @@
    (4 :> [index |-> 4, length |-> 3])

\* the entries with the children of `then` and `else` exchanged
ts_field_map_entries_swapped ==
    (0 :> [field_id |-> field_right, child_index |-> 1]) @@
    (1 :> [field_id |-> field_expression, child_index |-> 1]) @@
    (2 :> [field_id |-> field_left, child_index |-> 0]) @@
    (3 :> [field_id |-> field_right, child_index |-> 2]) @@
    (4 :> [field_id |-> field_condition, child_index |-> 0]) @@
    (5 :> [field_id |-> field_else, child_index |-> 2]) @@
    (6 :> [field_id |-> field_then, child_index |-> 4])

ts_field_map_entries ==
    (0 :> [field_id |-> field_right, child_index |-> 1]) @@
    (1 :> [field_id |-> field_expression, child_index |-> 1]) @@
    (2 :> [field_id |-> field_left, child_index |-> 0]) @@
    (3 :> [field_id |-> field_right, child_index |-> 2]) @@
    (4 :> [field_id |-> field_condition, child_index |-> 0]) @@
    (5 :> [field_id |-> field_else, child_index |-> 4]) @@
    (6 :> [field_id |-> field_then, child_index |-> 2])

(***************************************************************************)
(* Parse action constructors (the table macros) and ts_parse_actions.      *)
(***************************************************************************)
NoAction ==
    [type |-> "none", state |-> 0, symbol |-> 0, child_count |-> 0,
     production_id |-> 0, repetition |-> FALSE]

SHIFT(s) == [NoAction EXCEPT !.type = "shift", !.state = s]

SHIFT_REPEAT(s) ==
    [NoAction EXCEPT !.type = "shift", !.state = s, !.repetition = TRUE]

REDUCE(sym, n, prod) ==
    [NoAction EXCEPT !.type = "reduce", !.symbol = sym, !.child_count = n,
                     !.production_id = prod]

RECOVER == [NoAction EXCEPT !.type = "recover"]

ACCEPT_INPUT == [NoAction EXCEPT !.type = "accept"]

\* the entries with a shift that is no repetition behind the reduce of
\* entry 19: a shift-reduce conflict in state 3 on `print`
parse_actions_statement_conflict ==
    (0 :> <<>>) @@
    (1 :> <<RECOVER>>) @@
    (3 :> <<REDUCE(sym_program, 0, 0)>>) @@
    (5 :> <<SHIFT(19)>>) @@
    (7 :> <<SHIFT(21)>>) @@
    (9 :> <<SHIFT(20)>>) @@
    (11 :> <<SHIFT(26)>>) @@
    (13 :> <<SHIFT(6)>>) @@
    (15 :> <<REDUCE(sym_program, 1, 0)>>) @@
    (17 :> <<REDUCE(aux_sym_program_repeat1, 2, 0)>>) @@
    (19 :> <<REDUCE(aux_sym_program_repeat1, 2, 0), SHIFT(19)>>) @@
    (22 :> <<REDUCE(aux_sym_program_repeat1, 2, 0), SHIFT_REPEAT(21)>>) @@
    (25 :> <<REDUCE(aux_sym_program_repeat1, 2, 0), SHIFT_REPEAT(20)>>) @@
    (28 :> <<REDUCE(aux_sym_program_repeat1, 2, 0), SHIFT_REPEAT(26)>>) @@
    (31 :> <<REDUCE(aux_sym_program_repeat1, 2, 0), SHIFT_REPEAT(6)>>)

\* parser.c:1238-1252, the entries used by the dense rows of states 0 to 3
parse_actions_statement ==
    (0 :> <<>>) @@
    (1 :> <<RECOVER>>) @@
    (3 :> <<REDUCE(sym_program, 0, 0)>>) @@
    (5 :> <<SHIFT(19)>>) @@
    (7 :> <<SHIFT(21)>>) @@
    (9 :> <<SHIFT(20)>>) @@
    (11 :> <<SHIFT(26)>>) @@
    (13 :> <<SHIFT(6)>>) @@
    (15 :> <<REDUCE(sym_program, 1, 0)>>) @@
    (17 :> <<REDUCE(aux_sym_program_repeat1, 2, 0)>>) @@
    (19 :> <<REDUCE(aux_sym_program_repeat1, 2, 0), SHIFT_REPEAT(19)>>) @@
    (22 :> <<REDUCE(aux_sym_program_repeat1, 2, 0), SHIFT_REPEAT(21)>>) @@
    (25 :> <<REDUCE(aux_sym_program_repeat1, 2, 0), SHIFT_REPEAT(20)>>) @@
    (28 :> <<REDUCE(aux_sym_program_repeat1, 2, 0), SHIFT_REPEAT(26)>>) @@
    (31 :> <<REDUCE(aux_sym_program_repeat1, 2, 0), SHIFT_REPEAT(6)>>)

\* the reduce entries with the field map of production 2 (`expression` is
\* child 1) on print_statement
parse_actions_reduce_print_field ==
    (34 :> <<REDUCE(sym_group_expression, 3, 2)>>) @@
    (36 :> <<REDUCE(sym_group_expression, 3, 2)>>) @@
    (38 :> <<REDUCE(sym_binary_expression, 3, 3)>>) @@
    (48 :> <<REDUCE(sym_boolean, 1, 0)>>) @@
    (50 :> <<REDUCE(sym_boolean, 1, 0)>>) @@
    (52 :> <<REDUCE(sym_ternary_expression, 5, 4)>>) @@
    (60 :> <<REDUCE(sym_binary_expression, 3, 3)>>) @@
    (62 :> <<REDUCE(sym_unary_expression, 2, 1)>>) @@
    (64 :> <<REDUCE(sym_unary_expression, 2, 1)>>) @@
    (94 :> <<REDUCE(sym_print_statement, 3, 2)>>) @@
    (96 :> <<REDUCE(sym_expression_statement, 2, 0)>>)

\* parser.c:1253-1268 and 1283-1284, the reduce entries of the small rows
parse_actions_reduce ==
    (34 :> <<REDUCE(sym_group_expression, 3, 2)>>) @@
    (36 :> <<REDUCE(sym_group_expression, 3, 2)>>) @@
    (38 :> <<REDUCE(sym_binary_expression, 3, 3)>>) @@
    (48 :> <<REDUCE(sym_boolean, 1, 0)>>) @@
    (50 :> <<REDUCE(sym_boolean, 1, 0)>>) @@
    (52 :> <<REDUCE(sym_ternary_expression, 5, 4)>>) @@
    (60 :> <<REDUCE(sym_binary_expression, 3, 3)>>) @@
    (62 :> <<REDUCE(sym_unary_expression, 2, 1)>>) @@
    (64 :> <<REDUCE(sym_unary_expression, 2, 1)>>) @@
    (94 :> <<REDUCE(sym_print_statement, 3, 0)>>) @@
    (96 :> <<REDUCE(sym_expression_statement, 2, 0)>>)

\* parser.c:1256-1282, the shift entries of the small rows, and accept
parse_actions_shift ==
    (40 :> <<SHIFT(15)>>) @@
    (42 :> <<SHIFT(15)>>) @@
    (44 :> <<SHIFT(16)>>) @@
    (46 :> <<SHIFT(17)>>) @@
    (54 :> <<SHIFT(14)>>) @@
    (56 :> <<SHIFT(18)>>) @@
    (58 :> <<SHIFT(7)>>) @@
    (66 :> <<SHIFT(22)>>) @@
    (68 :> <<SHIFT(5)>>) @@
    (70 :> <<SHIFT(12)>>) @@
    (72 :> <<SHIFT(11)>>) @@
    (74 :> <<SHIFT(9)>>) @@
    (76 :> <<SHIFT(25)>>) @@
    (78 :> <<SHIFT(24)>>) @@
    (80 :> <<SHIFT(23)>>) @@
    (82 :> <<SHIFT(10)>>) @@
    (84 :> <<SHIFT(13)>>) @@
    (86 :> <<SHIFT(4)>>) @@
    (88 :> <<SHIFT(27)>>) @@
    (90 :> <<SHIFT(8)>>) @@
    (92 :> <<SHIFT(28)>>) @@
    (98 :> <<ACCEPT_INPUT>>)

ts_parse_actions ==
    parse_actions_statement @@ parse_actions_reduce @@ parse_actions_shift

(***************************************************************************)
(* The parse table: the dense rows of states 0 to 3 and the grouped rows   *)
(* of states 4 to 29, as they are laid out in ts_small_parse_table.        *)
(***************************************************************************)
\* parser.c:604-629
large_state_0 ==
    (ts_builtin_sym_end :> 1) @@
    (anon_sym_SEMI :> 1) @@
    (anon_sym_print :> 1) @@
    (anon_sym_COMMA :> 1) @@
    (anon_sym_EQ_EQ :> 1) @@
    (anon_sym_BANG_EQ :> 1) @@
    (anon_sym_LT :> 1) @@
    (anon_sym_LT_EQ :> 1) @@
    (anon_sym_GT :> 1) @@
    (anon_sym_GT_EQ :> 1) @@
    (anon_sym_PLUS :> 1) @@
    (anon_sym_DASH :> 1) @@
    (anon_sym_STAR :> 1) @@
    (anon_sym_SLASH :> 1) @@
    (anon_sym_QMARK :> 1) @@
    (anon_sym_COLON :> 1) @@
    (anon_sym_BANG :> 1) @@
    (anon_sym_LPAREN :> 1) @@
    (anon_sym_RPAREN :> 1) @@
    (sym_number :> 1) @@
    (sym_string :> 1) @@
    (anon_sym_true :> 1) @@
    (anon_sym_false :> 1) @@
    (sym_nil :> 1)
\* state 1 reducing the empty program on `print` too
large_state_1_empty_on_print ==
    (sym_program :> 29) @@
    (sym__statement :> 2) @@
    (sym_expression_statement :> 2) @@
    (sym_print_statement :> 2) @@
    (sym__expression :> 26) @@
    (sym_binary_expression :> 26) @@
    (sym_ternary_expression :> 26) @@
    (sym_unary_expression :> 26) @@
    (sym_group_expression :> 26) @@
    (sym__literal_expression :> 26) @@
    (sym_boolean :> 26) @@
    (aux_sym_program_repeat1 :> 2) @@
    (ts_builtin_sym_end :> 3) @@
    (anon_sym_print :> 3) @@
    (anon_sym_DASH :> 7) @@
    (anon_sym_BANG :> 7) @@
    (anon_sym_LPAREN :> 9) @@
    (sym_number :> 11) @@
    (sym_string :> 11) @@
    (anon_sym_true :> 13) @@
    (anon_sym_false :> 13) @@
    (sym_nil :> 11)
\* parser.c:630-653
large_state_1 ==
    (sym_program :> 29) @@
    (sym__statement :> 2) @@
    (sym_expression_statement :> 2) @@
    (sym_print_statement :> 2) @@
    (sym__expression :> 26) @@
    (sym_binary_expression :> 26) @@
    (sym_ternary_expression :> 26) @@
    (sym_unary_expression :> 26) @@
    (sym_group_expression :> 26) @@
    (sym__literal_expression :> 26) @@
    (sym_boolean :> 26) @@
    (aux_sym_program_repeat1 :> 2) @@
    (ts_builtin_sym_end :> 3) @@
    (anon_sym_print :> 5) @@
    (anon_sym_DASH :> 7) @@
    (anon_sym_BANG :> 7) @@
    (anon_sym_LPAREN :> 9) @@
    (sym_number :> 11) @@
    (sym_string :> 11) @@
    (anon_sym_true :> 13) @@
    (anon_sym_false :> 13) @@
    (sym_nil :> 11)
\* state 2 without the reduce of program at end of input
large_state_2_no_end ==
    (sym__statement :> 3) @@
    (sym_expression_statement :> 3) @@
    (sym_print_statement :> 3) @@
    (sym__expression :> 26) @@
    (sym_binary_expression :> 26) @@
    (sym_ternary_expression :> 26) @@
    (sym_unary_expression :> 26) @@
    (sym_group_expression :> 26) @@
    (sym__literal_expression :> 26) @@
    (sym_boolean :> 26) @@
    (aux_sym_program_repeat1 :> 3) @@
    (anon_sym_print :> 5) @@
    (anon_sym_DASH :> 7) @@
    (anon_sym_BANG :> 7) @@
    (anon_sym_LPAREN :> 9) @@
    (sym_number :> 11) @@
    (sym_string :> 11) @@
    (anon_sym_true :> 13) @@
    (anon_sym_false :> 13) @@
    (sym_nil :> 11)

\* parser.c:654-676
large_state_2 ==
    (sym__statement :> 3) @@
    (sym_expression_statement :> 3) @@
    (sym_print_statement :> 3) @@
    (sym__expression :> 26) @@
    (sym_binary_expression :> 26) @@
    (sym_ternary_expression :> 26) @@
    (sym_unary_expression :> 26) @@
    (sym_group_expression :> 26) @@
    (sym__literal_expression :> 26) @@
    (sym_boolean :> 26) @@
    (aux_sym_program_repeat1 :> 3) @@
    (ts_builtin_sym_end :> 15) @@
    (anon_sym_print :> 5) @@
    (anon_sym_DASH :> 7) @@
    (anon_sym_BANG :> 7) @@
    (anon_sym_LPAREN :> 9) @@
    (sym_number :> 11) @@
    (sym_string :> 11) @@
    (anon_sym_true :> 13) @@
    (anon_sym_false :> 13) @@
    (sym_nil :> 11)
\* state 3 with accept at end of input
large_state_3_accept ==
    (sym__statement :> 3) @@
    (sym_expression_statement :> 3) @@
    (sym_print_statement :> 3) @@
    (sym__expression :> 26) @@
    (sym_binary_expression :> 26) @@
    (sym_ternary_expression :> 26) @@
    (sym_unary_expression :> 26) @@
    (sym_group_expression :> 26) @@
    (sym__literal_expression :> 26) @@
    (sym_boolean :> 26) @@
    (aux_sym_program_repeat1 :> 3) @@
    (ts_builtin_sym_end :> 98) @@
    (anon_sym_print :> 19) @@
    (anon_sym_DASH :> 22) @@
    (anon_sym_BANG :> 22) @@
    (anon_sym_LPAREN :> 25) @@
    (sym_number :> 28) @@
    (sym_string :> 28) @@
    (anon_sym_true :> 31) @@
    (anon_sym_false :> 31) @@
    (sym_nil :> 28)
\* state 3 shifting `print` without the reduce of the repetition
large_state_3_shift_print ==
    (sym__statement :> 3) @@
    (sym_expression_statement :> 3) @@
    (sym_print_statement :> 3) @@
    (sym__expression :> 26) @@
    (sym_binary_expression :> 26) @@
    (sym_ternary_expression :> 26) @@
    (sym_unary_expression :> 26) @@
    (sym_group_expression :> 26) @@
    (sym__literal_expression :> 26) @@
    (sym_boolean :> 26) @@
    (aux_sym_program_repeat1 :> 3) @@
    (ts_builtin_sym_end :> 17) @@
    (anon_sym_print :> 5) @@
    (anon_sym_DASH :> 22) @@
    (anon_sym_BANG :> 22) @@
    (anon_sym_LPAREN :> 25) @@
    (sym_number :> 28) @@
    (sym_string :> 28) @@
    (anon_sym_true :> 31) @@
    (anon_sym_false :> 31) @@
    (sym_nil :> 28)

\* parser.c:677-699
large_state_3 ==
    (sym__statement :> 3) @@
    (sym_expression_statement :> 3) @@
    (sym_print_statement :> 3) @@
    (sym__expression :> 26) @@
    (sym_binary_expression :> 26) @@
    (sym_ternary_expression :> 26) @@
    (sym_unary_expression :> 26) @@
    (sym_group_expression :> 26) @@
    (sym__literal_expression :> 26) @@
    (sym_boolean :> 26) @@
    (aux_sym_program_repeat1 :> 3) @@
    (ts_builtin_sym_end :> 17) @@
    (anon_sym_print :> 19) @@
    (anon_sym_DASH :> 22) @@
    (anon_sym_BANG :> 22) @@
    (anon_sym_LPAREN :> 25) @@
    (sym_number :> 28) @@
    (sym_string :> 28) @@
    (anon_sym_true :> 31) @@
    (anon_sym_false :> 31) @@
    (sym_nil :> 28)
\* state 4 without an action on `<` and `>`
small_state_4_no_lt ==
    <<2,
      0, 2, anon_sym_LT, anon_sym_GT,
      34, 13, anon_sym_SEMI, anon_sym_COMMA, anon_sym_EQ_EQ, anon_sym_BANG_EQ, anon_sym_LT_EQ, anon_sym_GT_EQ, anon_sym_PLUS, anon_sym_DASH, anon_sym_STAR, anon_sym_SLASH, anon_sym_QMARK, anon_sym_COLON, anon_sym_RPAREN>>

\* parser.c:703-720
small_state_4 ==
    <<2,
      36, 2, anon_sym_LT, anon_sym_GT,
      34, 13, anon_sym_SEMI, anon_sym_COMMA, anon_sym_EQ_EQ, anon_sym_BANG_EQ, anon_sym_LT_EQ, anon_sym_GT_EQ, anon_sym_PLUS, anon_sym_DASH, anon_sym_STAR, anon_sym_SLASH, anon_sym_QMARK, anon_sym_COLON, anon_sym_RPAREN>>
\* parser.c:721-741
small_state_5 ==
    <<5,
      40, 2, anon_sym_LT, anon_sym_GT,
      42, 2, anon_sym_LT_EQ, anon_sym_GT_EQ,
      44, 2, anon_sym_PLUS, anon_sym_DASH,
      46, 2, anon_sym_STAR, anon_sym_SLASH,
      38, 7, anon_sym_SEMI, anon_sym_COMMA, anon_sym_EQ_EQ, anon_sym_BANG_EQ, anon_sym_QMARK, anon_sym_COLON, anon_sym_RPAREN>>
\* parser.c:742-759
small_state_6 ==
    <<2,
      50, 2, anon_sym_LT, anon_sym_GT,
      48, 13, anon_sym_SEMI, anon_sym_COMMA, anon_sym_EQ_EQ, anon_sym_BANG_EQ, anon_sym_LT_EQ, anon_sym_GT_EQ, anon_sym_PLUS, anon_sym_DASH, anon_sym_STAR, anon_sym_SLASH, anon_sym_QMARK, anon_sym_COLON, anon_sym_RPAREN>>
\* state 7 with the ternary reduced on `?` instead of `?` shifted
small_state_7_reduce_qmark ==
    <<7,
      52, 1, anon_sym_QMARK,
      40, 2, anon_sym_LT, anon_sym_GT,
      42, 2, anon_sym_LT_EQ, anon_sym_GT_EQ,
      44, 2, anon_sym_PLUS, anon_sym_DASH,
      46, 2, anon_sym_STAR, anon_sym_SLASH,
      54, 2, anon_sym_EQ_EQ, anon_sym_BANG_EQ,
      52, 4, anon_sym_SEMI, anon_sym_COMMA, anon_sym_COLON, anon_sym_RPAREN>>

\* parser.c:760-782
small_state_7 ==
    <<7,
      56, 1, anon_sym_QMARK,
      40, 2, anon_sym_LT, anon_sym_GT,
      42, 2, anon_sym_LT_EQ, anon_sym_GT_EQ,
      44, 2, anon_sym_PLUS, anon_sym_DASH,
      46, 2, anon_sym_STAR, anon_sym_SLASH,
      54, 2, anon_sym_EQ_EQ, anon_sym_BANG_EQ,
      52, 4, anon_sym_SEMI, anon_sym_COMMA, anon_sym_COLON, anon_sym_RPAREN>>
\* parser.c:783-803
small_state_8 ==
    <<5,
      9, 1, anon_sym_LPAREN,
      7, 2, anon_sym_DASH, anon_sym_BANG,
      13, 2, anon_sym_true, anon_sym_false,
      58, 3, sym_number, sym_string, sym_nil,
      7, 7, sym__expression, sym_binary_expression, sym_ternary_expression, sym_unary_expression, sym_group_expression, sym__literal_expression, sym_boolean>>
\* parser.c:804-821
small_state_9 ==
    <<2,
      60, 2, anon_sym_LT, anon_sym_GT,
      38, 13, anon_sym_SEMI, anon_sym_COMMA, anon_sym_EQ_EQ, anon_sym_BANG_EQ, anon_sym_LT_EQ, anon_sym_GT_EQ, anon_sym_PLUS, anon_sym_DASH, anon_sym_STAR, anon_sym_SLASH, anon_sym_QMARK, anon_sym_COLON, anon_sym_RPAREN>>
\* state 10 with `<` and `>` shifted into the operand of the prefix operator
small_state_10_shift_lt ==
    <<2,
      40, 2, anon_sym_LT, anon_sym_GT,
      62, 13, anon_sym_SEMI, anon_sym_COMMA, anon_sym_EQ_EQ, anon_sym_BANG_EQ, anon_sym_LT_EQ, anon_sym_GT_EQ, anon_sym_PLUS, anon_sym_DASH, anon_sym_STAR, anon_sym_SLASH, anon_sym_QMARK, anon_sym_COLON, anon_sym_RPAREN>>

\* parser.c:822-839
small_state_10 ==
    <<2,
      64, 2, anon_sym_LT, anon_sym_GT,
      62, 13, anon_sym_SEMI, anon_sym_COMMA, anon_sym_EQ_EQ, anon_sym_BANG_EQ, anon_sym_LT_EQ, anon_sym_GT_EQ, anon_sym_PLUS, anon_sym_DASH, anon_sym_STAR, anon_sym_SLASH, anon_sym_QMARK, anon_sym_COLON, anon_sym_RPAREN>>
\* state 11 with `*` and `/` reduced instead of shifted
small_state_11_reduce_star ==
    <<3,
      38, 2, anon_sym_STAR, anon_sym_SLASH,
      60, 2, anon_sym_LT, anon_sym_GT,
      38, 11, anon_sym_SEMI, anon_sym_COMMA, anon_sym_EQ_EQ, anon_sym_BANG_EQ, anon_sym_LT_EQ, anon_sym_GT_EQ, anon_sym_PLUS, anon_sym_DASH, anon_sym_QMARK, anon_sym_COLON, anon_sym_RPAREN>>

\* parser.c:840-858
small_state_11 ==
    <<3,
      46, 2, anon_sym_STAR, anon_sym_SLASH,
      60, 2, anon_sym_LT, anon_sym_GT,
      38, 11, anon_sym_SEMI, anon_sym_COMMA, anon_sym_EQ_EQ, anon_sym_BANG_EQ, anon_sym_LT_EQ, anon_sym_GT_EQ, anon_sym_PLUS, anon_sym_DASH, anon_sym_QMARK, anon_sym_COLON, anon_sym_RPAREN>>
\* state 12 with `<` and `>` shifted instead of reduced
small_state_12_shift_lt ==
    <<4,
      44, 2, anon_sym_PLUS, anon_sym_DASH,
      46, 2, anon_sym_STAR, anon_sym_SLASH,
      40, 2, anon_sym_LT, anon_sym_GT,
      38, 9, anon_sym_SEMI, anon_sym_COMMA, anon_sym_EQ_EQ, anon_sym_BANG_EQ, anon_sym_LT_EQ, anon_sym_GT_EQ, anon_sym_QMARK, anon_sym_COLON, anon_sym_RPAREN>>

\* parser.c:859-878
small_state_12 ==
    <<4,
      44, 2, anon_sym_PLUS, anon_sym_DASH,
      46, 2, anon_sym_STAR, anon_sym_SLASH,
      60, 2, anon_sym_LT, anon_sym_GT,
      38, 9, anon_sym_SEMI, anon_sym_COMMA, anon_sym_EQ_EQ, anon_sym_BANG_EQ, anon_sym_LT_EQ, anon_sym_GT_EQ, anon_sym_QMARK, anon_sym_COLON, anon_sym_RPAREN>>
\* state 13, behind a `,`, without its goto on an expression
small_state_13_no_goto ==
    <<5,
      9, 1, anon_sym_LPAREN,
      7, 2, anon_sym_DASH, anon_sym_BANG,
      13, 2, anon_sym_true, anon_sym_false,
      66, 3, sym_number, sym_string, sym_nil,
      0, 7, sym__expression, sym_binary_expression, sym_ternary_expression, sym_unary_expression, sym_group_expression, sym__literal_expression, sym_boolean>>
\* parser.c:879-899
small_state_13 ==
    <<5,
      9, 1, anon_sym_LPAREN,
      7, 2, anon_sym_DASH, anon_sym_BANG,
      13, 2, anon_sym_true, anon_sym_false,
      66, 3, sym_number, sym_string, sym_nil,
      22, 7, sym__expression, sym_binary_expression, sym_ternary_expression, sym_unary_expression, sym_group_expression, sym__literal_expression, sym_boolean>>
\* parser.c:900-920
small_state_14 ==
    <<5,
      9, 1, anon_sym_LPAREN,
      7, 2, anon_sym_DASH, anon_sym_BANG,
      13, 2, anon_sym_true, anon_sym_false,
      68, 3, sym_number, sym_string, sym_nil,
      5, 7, sym__expression, sym_binary_expression, sym_ternary_expression, sym_unary_expression, sym_group_expression, sym__literal_expression, sym_boolean>>
\* parser.c:921-941
small_state_15 ==
    <<5,
      9, 1, anon_sym_LPAREN,
      7, 2, anon_sym_DASH, anon_sym_BANG,
      13, 2, anon_sym_true, anon_sym_false,
      70, 3, sym_number, sym_string, sym_nil,
      12, 7, sym__expression, sym_binary_expression, sym_ternary_expression, sym_unary_expression, sym_group_expression, sym__literal_expression, sym_boolean>>
\* parser.c:942-962
small_state_16 ==
    <<5,
      9, 1, anon_sym_LPAREN,
      7, 2, anon_sym_DASH, anon_sym_BANG,
      13, 2, anon_sym_true, anon_sym_false,
      72, 3, sym_number, sym_string, sym_nil,
      11, 7, sym__expression, sym_binary_expression, sym_ternary_expression, sym_unary_expression, sym_group_expression, sym__literal_expression, sym_boolean>>
\* parser.c:963-983
small_state_17 ==
    <<5,
      9, 1, anon_sym_LPAREN,
      7, 2, anon_sym_DASH, anon_sym_BANG,
      13, 2, anon_sym_true, anon_sym_false,
      74, 3, sym_number, sym_string, sym_nil,
      9, 7, sym__expression, sym_binary_expression, sym_ternary_expression, sym_unary_expression, sym_group_expression, sym__literal_expression, sym_boolean>>
\* parser.c:984-1004
small_state_18 ==
    <<5,
      9, 1, anon_sym_LPAREN,
      7, 2, anon_sym_DASH, anon_sym_BANG,
      13, 2, anon_sym_true, anon_sym_false,
      76, 3, sym_number, sym_string, sym_nil,
      25, 7, sym__expression, sym_binary_expression, sym_ternary_expression, sym_unary_expression, sym_group_expression, sym__literal_expression, sym_boolean>>
\* parser.c:1005-1025
small_state_19 ==
    <<5,
      9, 1, anon_sym_LPAREN,
      7, 2, anon_sym_DASH, anon_sym_BANG,
      13, 2, anon_sym_true, anon_sym_false,
      78, 3, sym_number, sym_string, sym_nil,
      24, 7, sym__expression, sym_binary_expression, sym_ternary_expression, sym_unary_expression, sym_group_expression, sym__literal_expression, sym_boolean>>
\* parser.c:1026-1046
small_state_20 ==
    <<5,
      9, 1, anon_sym_LPAREN,
      7, 2, anon_sym_DASH, anon_sym_BANG,
      13, 2, anon_sym_true, anon_sym_false,
      80, 3, sym_number, sym_string, sym_nil,
      23, 7, sym__expression, sym_binary_expression, sym_ternary_expression, sym_unary_expression, sym_group_expression, sym__literal_expression, sym_boolean>>
\* parser.c:1047-1067
small_state_21 ==
    <<5,
      9, 1, anon_sym_LPAREN,
      7, 2, anon_sym_DASH, anon_sym_BANG,
      13, 2, anon_sym_true, anon_sym_false,
      82, 3, sym_number, sym_string, sym_nil,
      10, 7, sym__expression, sym_binary_expression, sym_ternary_expression, sym_unary_expression, sym_group_expression, sym__literal_expression, sym_boolean>>
\* state 22 reducing `a , b` before `==` and `!=`
small_state_22_reduce_eq ==
    <<7,
      56, 1, anon_sym_QMARK,
      40, 2, anon_sym_LT, anon_sym_GT,
      42, 2, anon_sym_LT_EQ, anon_sym_GT_EQ,
      44, 2, anon_sym_PLUS, anon_sym_DASH,
      46, 2, anon_sym_STAR, anon_sym_SLASH,
      38, 2, anon_sym_EQ_EQ, anon_sym_BANG_EQ,
      38, 4, anon_sym_SEMI, anon_sym_COMMA, anon_sym_COLON, anon_sym_RPAREN>>
\* parser.c:1068-1090
small_state_22 ==
    <<7,
      56, 1, anon_sym_QMARK,
      40, 2, anon_sym_LT, anon_sym_GT,
      42, 2, anon_sym_LT_EQ, anon_sym_GT_EQ,
      44, 2, anon_sym_PLUS, anon_sym_DASH,
      46, 2, anon_sym_STAR, anon_sym_SLASH,
      54, 2, anon_sym_EQ_EQ, anon_sym_BANG_EQ,
      38, 4, anon_sym_SEMI, anon_sym_COMMA, anon_sym_COLON, anon_sym_RPAREN>>
\* parser.c:1091-1112
small_state_23 ==
    <<8,
      56, 1, anon_sym_QMARK,
      84, 1, anon_sym_COMMA,
      86, 1, anon_sym_RPAREN,
      40, 2, anon_sym_LT, anon_sym_GT,
      42, 2, anon_sym_LT_EQ, anon_sym_GT_EQ,
      44, 2, anon_sym_PLUS, anon_sym_DASH,
      46, 2, anon_sym_STAR, anon_sym_SLASH,
      54, 2, anon_sym_EQ_EQ, anon_sym_BANG_EQ>>
\* parser.c:1113-1134
small_state_24 ==
    <<8,
      56, 1, anon_sym_QMARK,
      84, 1, anon_sym_COMMA,
      88, 1, anon_sym_SEMI,
      40, 2, anon_sym_LT, anon_sym_GT,
      42, 2, anon_sym_LT_EQ, anon_sym_GT_EQ,
      44, 2, anon_sym_PLUS, anon_sym_DASH,
      46, 2, anon_sym_STAR, anon_sym_SLASH,
      54, 2, anon_sym_EQ_EQ, anon_sym_BANG_EQ>>
\* state 25 without the shift of `?`
small_state_25_no_qmark ==
    <<8,
      84, 1, anon_sym_COMMA,
      84, 1, anon_sym_COMMA,
      90, 1, anon_sym_COLON,
      40, 2, anon_sym_LT, anon_sym_GT,
      42, 2, anon_sym_LT_EQ, anon_sym_GT_EQ,
      44, 2, anon_sym_PLUS, anon_sym_DASH,
      46, 2, anon_sym_STAR, anon_sym_SLASH,
      54, 2, anon_sym_EQ_EQ, anon_sym_BANG_EQ>>
\* parser.c:1135-1156
small_state_25 ==
    <<8,
      56, 1, anon_sym_QMARK,
      84, 1, anon_sym_COMMA,
      90, 1, anon_sym_COLON,
      40, 2, anon_sym_LT, anon_sym_GT,
      42, 2, anon_sym_LT_EQ, anon_sym_GT_EQ,
      44, 2, anon_sym_PLUS, anon_sym_DASH,
      46, 2, anon_sym_STAR, anon_sym_SLASH,
      54, 2, anon_sym_EQ_EQ, anon_sym_BANG_EQ>>
\* parser.c:1157-1178
small_state_26 ==
    <<8,
      56, 1, anon_sym_QMARK,
      84, 1, anon_sym_COMMA,
      92, 1, anon_sym_SEMI,
      40, 2, anon_sym_LT, anon_sym_GT,
      42, 2, anon_sym_LT_EQ, anon_sym_GT_EQ,
      44, 2, anon_sym_PLUS, anon_sym_DASH,
      46, 2, anon_sym_STAR, anon_sym_SLASH,
      54, 2, anon_sym_EQ_EQ, anon_sym_BANG_EQ>>
\* parser.c:1179-1190
small_state_27 ==
    <<1,
      94, 10, ts_builtin_sym_end, anon_sym_print, anon_sym_DASH, anon_sym_BANG, anon_sym_LPAREN, sym_number, sym_string, anon_sym_true, anon_sym_false, sym_nil>>
\* parser.c:1191-1202
small_state_28 ==
    <<1,
      96, 10, ts_builtin_sym_end, anon_sym_print, anon_sym_DASH, anon_sym_BANG, anon_sym_LPAREN, sym_number, sym_string, anon_sym_true, anon_sym_false, sym_nil>>
\* parser.c:1203-1205
small_state_29 ==
    <<1,
      98, 1, ts_builtin_sym_end>>

ts_small_parse_table ==
    small_state_4 \o small_state_5 \o small_state_6 \o small_state_7 \o
    small_state_8 \o small_state_9 \o small_state_10 \o small_state_11 \o
    small_state_12 \o small_state_13 \o small_state_14 \o small_state_15 \o
    small_state_16 \o small_state_17 \o small_state_18 \o small_state_19 \o
    small_state_20 \o small_state_21 \o small_state_22 \o small_state_23 \o
    small_state_24 \o small_state_25 \o small_state_26 \o small_state_27 \o
    small_state_28 \o small_state_29

\* the map with the offsets of states 27 and 28 exchanged
ts_small_parse_table_map_swapped ==
    (4 :> 0) @@ (5 :> 20) @@ (6 :> 46) @@ (7 :> 66) @@ (8 :> 96) @@
    (9 :> 122) @@ (10 :> 142) @@ (11 :> 162) @@ (12 :> 184) @@
    (13 :> 208) @@ (14 :> 234) @@ (15 :> 260) @@ (16 :> 286) @@
    (17 :> 312) @@ (18 :> 338) @@ (19 :> 364) @@ (20 :> 390) @@
    (21 :> 416) @@ (22 :> 442) @@ (23 :> 472) @@ (24 :> 502) @@
    (25 :> 532) @@ (26 :> 562) @@ (27 :> 605) @@ (28 :> 592) @@
    (29 :> 618)

ts_small_parse_table_map ==
    (4 :> 0) @@ (5 :> 20) @@ (6 :> 46) @@ (7 :> 66) @@ (8 :> 96) @@
    (9 :> 122) @@ (10 :> 142) @@ (11 :> 162) @@ (12 :> 184) @@
    (13 :> 208) @@ (14 :> 234) @@ (15 :> 260) @@ (16 :> 286) @@
    (17 :> 312) @@ (18 :> 338) @@ (19 :> 364) @@ (20 :> 390) @@
    (21 :> 416) @@ (22 :> 442) @@ (23 :> 472) @@ (24 :> 502) @@
    (25 :> 532) @@ (26 :> 562) @@ (27 :> 592) @@ (28 :> 605) @@
    (29 :> 618)

ts_parse_table ==
    (0 :> large_state_0) @@ (1 :> large_state_1) @@
    (2 :> large_state_2) @@ (3 :> large_state_3)

\* the states other than the statement starts in the mode that follows an
\* operand
ts_lex_modes_operand_1 ==
    [s \in 0..(STATE_COUNT - 1) |->
        CASE s \in {0, 29} -> 0
          [] s \in {1, 2, 3} -> 19
          [] OTHER -> 1]

\* every state in the mode of a statement start
ts_lex_modes_all_19 ==
    [s \in 0..(STATE_COUNT - 1) |->
        CASE s \in {0, 29} -> 0
          [] OTHER -> 19]

\* the accepting state in the mode that follows an operand
ts_lex_modes_accept_1 ==
    [s \in 0..(STATE_COUNT - 1) |->
        CASE s = 0 -> 0
          [] s \in {4, 5, 6, 7, 9, 10, 11, 12, 22, 23, 24, 25, 26, 29} -> 1
          [] OTHER -> 19]

ts_lex_modes ==
    [s \in 0..(STATE_COUNT - 1) |->
        CASE s \in {0, 29} -> 0
          [] s \in {4, 5, 6, 7, 9, 10, 11, 12, 22, 23, 24, 25, 26} -> 1
          [] OTHER -> 19]

(***************************************************************************)
(* The lexer automaton ts_lex.  A character is a one-character string; at  *)
(* end of input the lookahead is NUL and eof is TRUE.  A step of a lexer   *)
(* state is ADVANCE(to), SKIP(to) or END_STATE; ts_lex_accept gives the    *)
(* ACCEPT_TOKEN of a state, NoSymbol when it has none.                     *)
(***************************************************************************)
NUL == "NUL"
NoSymbol == -1
Digits == {"0", "1", "2", "3", "4", "5", "6", "7", "8", "9"}
Whitespace == {"\t", "\n", "\r", " "}

ADVANCE(to) == [op |-> "advance", to |-> to]
SKIP(to) == [op |-> "skip", to |-> to]
END_STATE == [op |-> "end", to |-> 0]

\* the start state without its transition on `;`
lex_case_0_no_semi(lookahead, eof) ==
    CASE eof -> ADVANCE(20)
      [] lookahead = "!" -> ADVANCE(37)
      [] lookahead = "\"" -> ADVANCE(2)
      [] lookahead = "(" -> ADVANCE(38)
      [] lookahead = ")" -> ADVANCE(39)
      [] lookahead = "*" -> ADVANCE(32)
      [] lookahead = "+" -> ADVANCE(30)
      [] lookahead = "," -> ADVANCE(23)
      [] lookahead = "-" -> ADVANCE(31)
      [] lookahead = "/" -> ADVANCE(33)
      [] lookahead = ":" -> ADVANCE(35)
      [] lookahead = "<" -> ADVANCE(26)
      [] lookahead = "=" -> ADVANCE(4)
      [] lookahead = ">" -> ADVANCE(28)
      [] lookahead = "?" -> ADVANCE(34)
      [] lookahead = "f" -> ADVANCE(5)
      [] lookahead = "n" -> ADVANCE(9)
      [] lookahead = "p" -> ADVANCE(14)
      [] lookahead = "t" -> ADVANCE(13)
      [] lookahead \in Whitespace -> SKIP(0)
      [] lookahead \in Digits -> ADVANCE(40)
      [] OTHER -> END_STATE

lex_case_0(lookahead, eof) ==
    CASE eof -> ADVANCE(20)
      [] lookahead = "!" -> ADVANCE(37)
      [] lookahead = "\"" -> ADVANCE(2)
      [] lookahead = "(" -> ADVANCE(38)
      [] lookahead = ")" -> ADVANCE(39)
      [] lookahead = "*" -> ADVANCE(32)
      [] lookahead = "+" -> ADVANCE(30)
      [] lookahead = "," -> ADVANCE(23)
      [] lookahead = "-" -> ADVANCE(31)
      [] lookahead = "/" -> ADVANCE(33)
      [] lookahead = ":" -> ADVANCE(35)
      [] lookahead = ";" -> ADVANCE(21)
      [] lookahead = "<" -> ADVANCE(26)
      [] lookahead = "=" -> ADVANCE(4)
      [] lookahead = ">" -> ADVANCE(28)
      [] lookahead = "?" -> ADVANCE(34)
      [] lookahead = "f" -> ADVANCE(5)
      [] lookahead = "n" -> ADVANCE(9)
      [] lookahead = "p" -> ADVANCE(14)
      [] lookahead = "t" -> ADVANCE(13)
      [] lookahead \in Whitespace -> SKIP(0)
      [] lookahead \in Digits -> ADVANCE(40)
      [] OTHER -> END_STATE

\* state 1 with the end of input token
lex_case_1_eof(lookahead, eof) ==
    CASE eof -> ADVANCE(20)
      [] lookahead = "!" -> ADVANCE(3)
      [] lookahead = ")" -> ADVANCE(39)
      [] lookahead = "*" -> ADVANCE(32)
      [] lookahead = "+" -> ADVANCE(30)
      [] lookahead = "," -> ADVANCE(23)
      [] lookahead = "-" -> ADVANCE(31)
      [] lookahead = "/" -> ADVANCE(33)
      [] lookahead = ":" -> ADVANCE(35)
      [] lookahead = ";" -> ADVANCE(21)
      [] lookahead = "<" -> ADVANCE(26)
      [] lookahead = "=" -> ADVANCE(4)
      [] lookahead = ">" -> ADVANCE(28)
      [] lookahead = "?" -> ADVANCE(34)
      [] lookahead \in Whitespace -> SKIP(1)
      [] OTHER -> END_STATE

lex_case_1(lookahead, eof) ==
    CASE lookahead = "!" -> ADVANCE(3)
      [] lookahead = ")" -> ADVANCE(39)
      [] lookahead = "*" -> ADVANCE(32)
      [] lookahead = "+" -> ADVANCE(30)
      [] lookahead = "," -> ADVANCE(23)
      [] lookahead = "-" -> ADVANCE(31)
      [] lookahead = "/" -> ADVANCE(33)
      [] lookahead = ":" -> ADVANCE(35)
      [] lookahead = ";" -> ADVANCE(21)
      [] lookahead = "<" -> ADVANCE(26)
      [] lookahead = "=" -> ADVANCE(4)
      [] lookahead = ">" -> ADVANCE(28)
      [] lookahead = "?" -> ADVANCE(34)
      [] lookahead \in Whitespace -> SKIP(1)
      [] OTHER -> END_STATE

\* state 19 keeping the whitespace before a token in the token
lex_case_19_keep_space(lookahead, eof) ==
    CASE eof -> ADVANCE(20)
      [] lookahead = "!" -> ADVANCE(36)
      [] lookahead = "\"" -> ADVANCE(2)
      [] lookahead = "(" -> ADVANCE(38)
      [] lookahead = "-" -> ADVANCE(31)
      [] lookahead = "f" -> ADVANCE(5)
      [] lookahead = "n" -> ADVANCE(9)
      [] lookahead = "p" -> ADVANCE(14)
      [] lookahead = "t" -> ADVANCE(13)
      [] lookahead \in Whitespace -> ADVANCE(19)
      [] lookahead \in Digits -> ADVANCE(40)
      [] OTHER -> END_STATE

lex_case_19(lookahead, eof) ==
    CASE eof -> ADVANCE(20)
      [] lookahead = "!" -> ADVANCE(36)
      [] lookahead = "\"" -> ADVANCE(2)
      [] lookahead = "(" -> ADVANCE(38)
      [] lookahead = "-" -> ADVANCE(31)
      [] lookahead = "f" -> ADVANCE(5)
      [] lookahead = "n" -> ADVANCE(9)
      [] lookahead = "p" -> ADVANCE(14)
      [] lookahead = "t" -> ADVANCE(13)
      [] lookahead \in Whitespace -> SKIP(19)
      [] lookahead \in Digits -> ADVANCE(40)
      [] OTHER -> END_STATE

\* the fraction of a number leading back to the state of its integer part
lex_case_inner_second_point(state, lookahead, eof) ==
    CASE state = 2 /\ lookahead = "\"" -> ADVANCE(42)
      [] state = 2 /\ lookahead # NUL -> ADVANCE(2)
      [] state = 3 /\ lookahead = "=" -> ADVANCE(25)
      [] state = 4 /\ lookahead = "=" -> ADVANCE(24)
      [] state = 5 /\ lookahead = "a" -> ADVANCE(10)
      [] state = 6 /\ lookahead = "e" -> ADVANCE(43)
      [] state = 7 /\ lookahead = "e" -> ADVANCE(44)
      [] state = 8 /\ lookahead = "i" -> ADVANCE(12)
      [] state = 9 /\ lookahead = "i" -> ADVANCE(11)
      [] state = 10 /\ lookahead = "l" -> ADVANCE(15)
      [] state = 11 /\ lookahead = "l" -> ADVANCE(45)
      [] state = 12 /\ lookahead = "n" -> ADVANCE(16)
      [] state = 13 /\ lookahead = "r" -> ADVANCE(17)
      [] state = 14 /\ lookahead = "r" -> ADVANCE(8)
      [] state = 15 /\ lookahead = "s" -> ADVANCE(7)
      [] state = 16 /\ lookahead = "t" -> ADVANCE(22)
      [] state = 17 /\ lookahead = "u" -> ADVANCE(6)
      [] state = 18 /\ lookahead \in Digits -> ADVANCE(40)
      [] OTHER -> END_STATE

\* lexer states 2 to 18: inside a string, a two-character operator, a
\* keyword or the fraction of a number; none of them accepts
lex_case_inner(state, lookahead, eof) ==
    CASE state = 2 /\ lookahead = "\"" -> ADVANCE(42)
      [] state = 2 /\ lookahead # NUL -> ADVANCE(2)
      [] state = 3 /\ lookahead = "=" -> ADVANCE(25)
      [] state = 4 /\ lookahead = "=" -> ADVANCE(24)
      [] state = 5 /\ lookahead = "a" -> ADVANCE(10)
      [] state = 6 /\ lookahead = "e" -> ADVANCE(43)
      [] state = 7 /\ lookahead = "e" -> ADVANCE(44)
      [] state = 8 /\ lookahead = "i" -> ADVANCE(12)
      [] state = 9 /\ lookahead = "i" -> ADVANCE(11)
      [] state = 10 /\ lookahead = "l" -> ADVANCE(15)
      [] state = 11 /\ lookahead = "l" -> ADVANCE(45)
      [] state = 12 /\ lookahead = "n" -> ADVANCE(16)
      [] state = 13 /\ lookahead = "r" -> ADVANCE(17)
      [] state = 14 /\ lookahead = "r" -> ADVANCE(8)
      [] state = 15 /\ lookahead = "s" -> ADVANCE(7)
      [] state = 16 /\ lookahead = "t" -> ADVANCE(22)
      [] state = 17 /\ lookahead = "u" -> ADVANCE(6)
      [] state = 18 /\ lookahead \in Digits -> ADVANCE(41)
      [] OTHER -> END_STATE

\* the accepting states with `print` going on into a number on a digit
lex_case_accepting_print_digit(state, lookahead, eof) ==
    CASE state = 22 /\ lookahead \in Digits -> ADVANCE(40)
      [] state = 26 /\ lookahead = "=" -> ADVANCE(27)
      [] state = 28 /\ lookahead = "=" -> ADVANCE(29)
      [] state = 37 /\ lookahead = "=" -> ADVANCE(25)
      [] state = 40 /\ lookahead = "." -> ADVANCE(18)
      [] state = 40 /\ lookahead \in Digits -> ADVANCE(40)
      [] state = 41 /\ lookahead \in Digits -> ADVANCE(41)
      [] OTHER -> END_STATE

\* the accepting states without the transition of `<` on `=`
lex_case_accepting_no_le(state, lookahead, eof) ==
    CASE state = 28 /\ lookahead = "=" -> ADVANCE(29)
      [] state = 37 /\ lookahead = "=" -> ADVANCE(25)
      [] state = 40 /\ lookahead = "." -> ADVANCE(18)
      [] state = 40 /\ lookahead \in Digits -> ADVANCE(40)
      [] state = 41 /\ lookahead \in Digits -> ADVANCE(41)
      [] OTHER -> END_STATE

\* lexer states 20 to 45: the accepting states, after their ACCEPT_TOKEN
lex_case_accepting(state, lookahead, eof) ==
    CASE state = 26 /\ lookahead = "=" -> ADVANCE(27)
      [] state = 28 /\ lookahead = "=" -> ADVANCE(29)
      [] state = 37 /\ lookahead = "=" -> ADVANCE(25)
      [] state = 40 /\ lookahead = "." -> ADVANCE(18)
      [] state = 40 /\ lookahead \in Digits -> ADVANCE(40)
      [] state = 41 /\ lookahead \in Digits -> ADVANCE(41)
      [] OTHER -> END_STATE

\* state 2, inside a string, accepting the string read so far
ts_lex_accept_open_string ==
    [s \in 0..45 |->
        CASE s = 2 -> sym_string
          [] s = 20 -> ts_builtin_sym_end
          [] s = 21 -> anon_sym_SEMI
          [] s = 22 -> anon_sym_print
          [] s = 23 -> anon_sym_COMMA
          [] s = 24 -> anon_sym_EQ_EQ
          [] s = 25 -> anon_sym_BANG_EQ
          [] s = 26 -> anon_sym_LT
          [] s = 27 -> anon_sym_LT_EQ
          [] s = 28 -> anon_sym_GT
          [] s = 29 -> anon_sym_GT_EQ
          [] s = 30 -> anon_sym_PLUS
          [] s = 31 -> anon_sym_DASH
          [] s = 32 -> anon_sym_STAR
          [] s = 33 -> anon_sym_SLASH
          [] s = 34 -> anon_sym_QMARK
          [] s = 35 -> anon_sym_COLON
          [] s = 36 -> anon_sym_BANG
          [] s = 37 -> anon_sym_BANG
          [] s = 38 -> anon_sym_LPAREN
          [] s = 39 -> anon_sym_RPAREN
          [] s = 40 -> sym_number
          [] s = 41 -> sym_number
          [] s = 42 -> sym_string
          [] s = 43 -> anon_sym_true
          [] s = 44 -> anon_sym_false
          [] s = 45 -> sym_nil
          [] OTHER -> NoSymbol]

ts_lex_accept ==
    [s \in 0..45 |->
        CASE s = 20 -> ts_builtin_sym_end
          [] s = 21 -> anon_sym_SEMI
          [] s = 22 -> anon_sym_print
          [] s = 23 -> anon_sym_COMMA
          [] s = 24 -> anon_sym_EQ_EQ
          [] s = 25 -> anon_sym_BANG_EQ
          [] s = 26 -> anon_sym_LT
          [] s = 27 -> anon_sym_LT_EQ
          [] s = 28 -> anon_sym_GT
          [] s = 29 -> anon_sym_GT_EQ
          [] s = 30 -> anon_sym_PLUS
          [] s = 31 -> anon_sym_DASH
          [] s = 32 -> anon_sym_STAR
          [] s = 33 -> anon_sym_SLASH
          [] s = 34 -> anon_sym_QMARK
          [] s = 35 -> anon_sym_COLON
          [] s = 36 -> anon_sym_BANG
          [] s = 37 -> anon_sym_BANG
          [] s = 38 -> anon_sym_LPAREN
          [] s = 39 -> anon_sym_RPAREN
          [] s = 40 -> sym_number
          [] s = 41 -> sym_number
          [] s = 42 -> sym_string
          [] s = 43 -> anon_sym_true
          [] s = 44 -> anon_sym_false
          [] s = 45 -> sym_nil
          [] OTHER -> NoSymbol]

\* the switch with case 1 running the code of case 0
ts_lex_step_1_as_0(state, lookahead, eof) ==
    CASE state = 0 -> lex_case_0(lookahead, eof)
      [] state = 1 -> lex_case_0(lookahead, eof)
      [] state = 19 -> lex_case_19(lookahead, eof)
      [] state \in 2..18 -> lex_case_inner(state, lookahead, eof)
      [] OTHER -> lex_case_accepting(state, lookahead, eof)

ts_lex_step(state, lookahead, eof) ==
    CASE state = 0 -> lex_case_0(lookahead, eof)
      [] state = 1 -> lex_case_1(lookahead, eof)
      [] state = 19 -> lex_case_19(lookahead, eof)
      [] state \in 2..18 -> lex_case_inner(state, lookahead, eof)
      [] OTHER -> lex_case_accepting(state, lookahead, eof)

(***************************************************************************)
(* One run of the lexer: from byte offset o of text, entered in lexer      *)
(* state `state`.  SKIP moves the token start past the skipped character;  *)
(* ACCEPT_TOKEN records the symbol and the end of the token at the current *)
(* offset; END_STATE returns the last token recorded, NoSymbol if none.    *)
(***************************************************************************)
LexScan(text) ==
    LET scan[c \in [state : 0..45, o : Nat, start : Nat,
                    result : [sym : Int, start : Nat, end : Nat]]] ==
            LET eof == c.o >= Len(text)
                lookahead == IF eof THEN NUL ELSE text[c.o + 1]
                acc == ts_lex_accept[c.state]
                r == IF acc # NoSymbol
                     THEN [sym |-> acc, start |-> c.start, end |-> c.o]
                     ELSE [c.result EXCEPT !.start = c.start]
                t == ts_lex_step(c.state, lookahead, eof)
            IN  CASE t.op = "advance" ->
                         scan[[state |-> t.to,
                               o |-> IF eof THEN c.o ELSE c.o + 1,
                               start |-> c.start, result |-> r]]
                  [] t.op = "skip" ->
                         scan[[state |-> t.to, o |-> c.o + 1,
                               start |-> c.o + 1, result |-> r]]
                  [] OTHER -> r
    IN  scan

next_token(text, offset, mode) ==
    LexScan(text)[[state |-> mode, o |-> offset, start |-> offset,
                   result |-> [sym |-> NoSymbol, start |-> offset,
                               end |-> offset]]]

(***************************************************************************)
(* Table lookup.  States below LARGE_STATE_COUNT have a dense row; the     *)
(* others have a row of groups in ts_small_parse_table, found through      *)
(* ts_small_parse_table_map: a group is a value, a count and that many     *)
(* symbols.  The result is an index into ts_parse_actions for a terminal   *)
(* and the next state for a nonterminal; 0 when the row has no entry.      *)
(***************************************************************************)
SmallGroups(symbol) ==
    LET group[c \in [i : Nat, groups : Nat]] ==
            IF c.groups = 0 THEN 0
            ELSE LET value == ts_small_parse_table[c.i]
                     count == ts_small_parse_table[c.i + 1]
                 IN  IF \E j \in 1..count :
                            ts_small_parse_table[c.i + 1 + j] = symbol
                     THEN value
                     ELSE group[[i |-> c.i + 2 + count,
                                 groups |-> c.groups - 1]]
    IN  group

ts_language_lookup(state, symbol) ==
    IF state < LARGE_STATE_COUNT
    THEN IF symbol \in DOMAIN ts_parse_table[state]
         THEN ts_parse_table[state][symbol] ELSE 0
    ELSE LET index == ts_small_parse_table_map[state]
         IN  SmallGroups(symbol)[[i |-> index + 2,
                                  groups |-> ts_small_parse_table[index + 1]]]

\* the actions listed for a terminal, in table order
ts_language_actions(state, symbol) ==
    ts_parse_actions[ts_language_lookup(state, symbol)]

\* goto(state, nonterminal)
ts_language_next_state(state, symbol) == ts_language_lookup(state, symbol)

(***************************************************************************)
(* Tokens, nodes and the tree builder.                                     *)
(***************************************************************************)
ts_builtin_sym_error == 65535

NoToken == [sym |-> NoSymbol, start |-> 0, end |-> 0]

NoNode ==
    [sym |-> NoSymbol, start |-> 0, end |-> 0, kids |-> <<>>,
     production_id |-> 0]

Leaf(tok) ==
    [sym |-> tok.sym, start |-> tok.start, end |-> tok.end, kids |-> <<>>,
     production_id |-> 0]

\* a node over its children: the range runs from the first child's start to
\* the last child's end, and is empty at offset `at` without children
MakeNode(sym, kids, production_id, at) ==
    [sym |-> sym,
     start |-> IF kids = <<>> THEN at ELSE kids[1].start,
     end |-> IF kids = <<>> THEN at ELSE kids[Len(kids)].end,
     kids |-> kids,
     production_id |-> production_id]

\* the fields of a node: the entries of its production's field map slice
FieldEntries(production_id) ==
    LET slice == ts_field_map_slices[production_id]
    IN  {ts_field_map_entries[i] :
            i \in slice.index..(slice.index + slice.length - 1)}

HasField(node, field_id) ==
    \E e \in FieldEntries(node.production_id) : e.field_id = field_id

\* the child a field names (child_index is 0-based)
ChildByField(node, field_id) ==
    LET e == CHOOSE x \in FieldEntries(node.production_id) :
                 x.field_id = field_id
    IN  node.kids[e.child_index + 1]

IsVisible(sym) ==
    sym = ts_builtin_sym_error \/ ts_symbol_visible[sym]

RECURSIVE Concat(_)
Concat(seqs) ==
    IF seqs = <<>> THEN <<>> ELSE Head(seqs) \o Concat(Tail(seqs))

\* the children a consumer sees: the children of a hidden node take the
\* place of the hidden node
RECURSIVE VisibleKids(_)
VisibleKids(node) ==
    Concat([i \in 1..Len(node.kids) |->
               IF IsVisible(node.kids[i].sym) THEN <<node.kids[i]>>
               ELSE VisibleKids(node.kids[i])])

\* the leaves of a node, in order
RECURSIVE Leaves(_)
Leaves(node) ==
    IF node.kids = <<>>
    THEN (IF node.sym < TOKEN_COUNT \/ node.sym = ts_builtin_sym_error
          THEN <<node>> ELSE <<>>)
    ELSE Concat([i \in 1..Len(node.kids) |-> Leaves(node.kids[i])])

(***************************************************************************)
(* The parser: the state of one parse.                                     *)
(***************************************************************************)
VARIABLES
    input,      \* the source text, a sequence of characters
    pos,        \* byte offset behind the last consumed token
    stack,      \* the parse stack: (state, node) pairs, the top last
    lookahead,  \* the token lexed and not yet consumed, or NoToken
    pc,         \* "lex", "parse", "recover" or "done"
    errkids,    \* during recovery: the children of the error node so far
    errors      \* number of recoveries started

vars == <<input, pos, stack, lookahead, pc, errkids, errors>>

START_STATE == 1
ERROR_STATE == 0

Top == stack[Len(stack)]

\* the action the engine takes for an entry: the first one that is not a
\* SHIFT_REPEAT; NoAction when the entry is empty
ChosenAction(actions) ==
    LET live == SelectSeq(actions,
                          LAMBDA a : ~(a.type = "shift" /\ a.repetition))
    IN  IF live = <<>> THEN NoAction ELSE live[1]

CurrentAction ==
    ChosenAction(ts_language_actions(Top.state, lookahead.sym))

\* the states a statement can follow: those with a goto on _statement
StatementStates ==
    {s \in 0..(STATE_COUNT - 1) :
        ts_language_next_state(s, sym__statement) # 0}

\* number of entries above the last statement boundary
Unfinished(stk) ==
    LET above[n \in 1..Len(stk)] ==
            IF stk[n].state \in StatementStates THEN 0
            ELSE 1 + above[n - 1]
    IN  above[Len(stk)]

\* error recovery starts: the entries above the last statement boundary are
\* popped and their tokens become the first children of the error node.
\* A recovery consumes at least one byte or is the last one, so a parse has
\* no more recoveries than the input has bytes, plus one: the guard caps
\* the counter there.
BeginRecovery ==
    LET n == Unfinished(stack)
        keep == Len(stack) - n
    IN  /\ errors <= Len(input)
        /\ stack' = SubSeq(stack, 1, keep)
        /\ errkids' = Concat([i \in 1..n |-> Leaves(stack[keep + i].node)])
        /\ lookahead' = NoToken
        /\ pc' = "recover"
        /\ errors' = errors + 1
        /\ UNCHANGED <<input, pos>>

\* step 1: the next token, in the lexical mode of the state on top
Lex ==
    /\ pc = "lex"
    /\ LET tok == next_token(input, pos, ts_lex_modes[Top.state])
       IN  /\ tok.sym # NoSymbol
           /\ lookahead' = tok
    /\ pc' = "parse"
    /\ UNCHANGED <<input, pos, stack, errkids, errors>>

\* no token matches in the mode of the state on top
LexError ==
    /\ pc = "lex"
    /\ next_token(input, pos, ts_lex_modes[Top.state]).sym = NoSymbol
    /\ BeginRecovery

Shift ==
    /\ pc = "parse"
    /\ CurrentAction.type = "shift"
    /\ stack' = Append(stack, [state |-> CurrentAction.state,
                               node |-> Leaf(lookahead)])
    /\ pos' = lookahead.end
    /\ lookahead' = NoToken
    /\ pc' = "lex"
    /\ UNCHANGED <<input, errkids, errors>>

Reduce ==
    /\ pc = "parse"
    /\ CurrentAction.type = "reduce"
    /\ LET a == CurrentAction
           keep == Len(stack) - a.child_count
           kids == [i \in 1..a.child_count |-> stack[keep + i].node]
           node == MakeNode(a.symbol, kids, a.production_id, pos)
           next == ts_language_next_state(stack[keep].state, a.symbol)
       IN  stack' = Append(SubSeq(stack, 1, keep),
                           [state |-> next, node |-> node])
    /\ UNCHANGED <<input, pos, lookahead, pc, errkids, errors>>

Accept ==
    /\ pc = "parse"
    /\ CurrentAction.type = "accept"
    /\ pc' = "done"
    /\ UNCHANGED <<input, pos, stack, lookahead, errkids, errors>>

\* no action for the lookahead in the state on top
ParseError ==
    /\ pc = "parse"
    /\ CurrentAction.type \in {"none", "recover"}
    /\ BeginRecovery

\* recovery scans in the lexical mode of the error state: a token that is
\* no synchronizing token joins the error node; a byte no token starts at
\* joins it as an error leaf and scanning resumes one byte further
RecoverSkip ==
    /\ pc = "recover"
    /\ LET tok == next_token(input, pos, ts_lex_modes[ERROR_STATE])
       IN  /\ tok.sym \notin {anon_sym_SEMI, ts_builtin_sym_end}
           /\ IF tok.sym = NoSymbol
              THEN /\ errkids' = Append(errkids,
                         Leaf([sym |-> ts_builtin_sym_error,
                               start |-> tok.start, end |-> tok.start + 1]))
                   /\ pos' = tok.start + 1
              ELSE /\ errkids' = Append(errkids, Leaf(tok))
                   /\ pos' = tok.end
    /\ UNCHANGED <<input, stack, lookahead, pc, errors>>

\* the synchronizing token: `;` is consumed into the error node, end of
\* input is not; the error node becomes a statement on the stack
RecoverSync ==
    /\ pc = "recover"
    /\ LET tok == next_token(input, pos, ts_lex_modes[ERROR_STATE])
           kids == IF tok.sym = anon_sym_SEMI
                   THEN Append(errkids, Leaf(tok)) ELSE errkids
           node == MakeNode(ts_builtin_sym_error, kids, 0, pos)
           next == ts_language_next_state(Top.state, sym__statement)
       IN  /\ tok.sym \in {anon_sym_SEMI, ts_builtin_sym_end}
           /\ stack' = Append(stack, [state |-> next, node |-> node])
           /\ pos' = IF tok.sym = anon_sym_SEMI THEN tok.end ELSE pos
    /\ errkids' = <<>>
    /\ pc' = "lex"
    /\ UNCHANGED <<input, lookahead, errors>>

(***************************************************************************)
(* The inputs of the model.  A word is the spelling of one token (or a     *)
(* byte no token starts with); a text is a sequence of words written with  *)
(* one space between them.                                                 *)
(***************************************************************************)
MaxOps == 2
MaxGroupOps == 1
MaxStmts == 3
MaxTokens == 2
MaxNumberLen == 5
MaxStringLen == 4

Spelling ==
    (anon_sym_SEMI :> <<";">>) @@
    (anon_sym_print :> <<"p", "r", "i", "n", "t">>) @@
    (anon_sym_COMMA :> <<",">>) @@
    (anon_sym_EQ_EQ :> <<"=", "=">>) @@
    (anon_sym_BANG_EQ :> <<"!", "=">>) @@
    (anon_sym_LT :> <<"<">>) @@
    (anon_sym_LT_EQ :> <<"<", "=">>) @@
    (anon_sym_GT :> <<">">>) @@
    (anon_sym_GT_EQ :> <<">", "=">>) @@
    (anon_sym_PLUS :> <<"+">>) @@
    (anon_sym_DASH :> <<"-">>) @@
    (anon_sym_STAR :> <<"*">>) @@
    (anon_sym_SLASH :> <<"/">>) @@
    (anon_sym_QMARK :> <<"?">>) @@
    (anon_sym_COLON :> <<":">>) @@
    (anon_sym_BANG :> <<"!">>) @@
    (anon_sym_LPAREN :> <<"(">>) @@
    (anon_sym_RPAREN :> <<")">>) @@
    (sym_number :> <<"1">>) @@
    (sym_string :> <<"\"", "a", "\"">>) @@
    (anon_sym_true :> <<"t", "r", "u", "e">>) @@
    (anon_sym_false :> <<"f", "a", "l", "s", "e">>) @@
    (sym_nil :> <<"n", "i", "l">>)

BadWord == <<"@">>

\* words that stop in the middle of a token: half of `==`, a string without
\* its closing quote, a number with a point and no fraction, part of `true`
PartialWords ==
    {<<"=">>, <<"\"", "a">>, <<"1", ".">>, <<"t", "r", "u">>}

Render(words) ==
    IF words = <<>> THEN <<>>
    ELSE words[1] \o
         Concat([i \in 1..(Len(words) - 1) |-> <<" ">> \o words[i + 1]])

\* the operators of the grammar of spec.md 4.2, and `,`
EqualityOps == {anon_sym_EQ_EQ, anon_sym_BANG_EQ}
ComparisonOps == {anon_sym_LT, anon_sym_LT_EQ, anon_sym_GT, anon_sym_GT_EQ}
AdditiveOps == {anon_sym_PLUS, anon_sym_DASH}
MultiplicativeOps == {anon_sym_STAR, anon_sym_SLASH}
BinaryOps == EqualityOps \cup ComparisonOps \cup AdditiveOps
                 \cup MultiplicativeOps
InfixOps == BinaryOps \cup {anon_sym_COMMA}
PrefixOps == {anon_sym_DASH, anon_sym_BANG}
LiteralSyms == {sym_number, sym_string, anon_sym_true, anon_sym_false,
                sym_nil}

\* the symbol sequences of the expressions with exactly n operators
\* (prefix, infix, ternary or group), every operand the literal `lit`
RECURSIVE ExprSyms(_, _)
ExprSyms(n, lits) ==
    IF n = 0 THEN {<<l>> : l \in lits}
    ELSE {<<u>> \o e : u \in PrefixOps, e \in ExprSyms(n - 1, lits)}
         \cup {<<anon_sym_LPAREN>> \o e \o <<anon_sym_RPAREN>> :
                 e \in ExprSyms(n - 1, lits)}
         \cup UNION {{l \o <<op>> \o r :
                        op \in InfixOps, l \in ExprSyms(i, lits),
                        r \in ExprSyms(n - 1 - i, lits)} : i \in 0..(n - 1)}
         \cup UNION {UNION {{c \o <<anon_sym_QMARK>> \o t
                                 \o <<anon_sym_COLON>> \o e :
                               c \in ExprSyms(i, lits),
                               t \in ExprSyms(j, lits),
                               e \in ExprSyms(n - 1 - i - j, lits)} :
                            j \in 0..(n - 1 - i)} : i \in 0..(n - 1)}

ExprUpTo(n, lits) == UNION {ExprSyms(k, lits) : k \in 0..n}

Words(syms) == [i \in 1..Len(syms) |-> Spelling[syms[i]]]

\* one expression statement, up to MaxOps operators over the number 1
GrammarInputs ==
    {Words(e \o <<anon_sym_SEMI>>) : e \in ExprUpTo(MaxOps, {sym_number})}

\* one statement with at most one operator, over every kind of literal
LiteralInputs ==
    {Words(e \o <<anon_sym_SEMI>>) : e \in ExprUpTo(1, LiteralSyms)}
    \cup {Words(<<anon_sym_print>> \o e \o <<anon_sym_SEMI>>) :
            e \in ExprUpTo(1, LiteralSyms)}

\* a op1 b op2 c ;
PrecedenceInputs ==
    {Words(<<a, op1, b, op2, c, anon_sym_SEMI>>) :
        a \in {sym_number, anon_sym_true}, b \in {sym_number, anon_sym_true},
        c \in {sym_number, anon_sym_true}, op1 \in InfixOps, op2 \in InfixOps}

\* u a op b ;  and  u1 u2 a ;
UnaryInputs ==
    {Words(<<u, a, op, b, anon_sym_SEMI>>) :
        u \in PrefixOps, a \in {sym_number, anon_sym_true},
        b \in {sym_number, anon_sym_true},
        op \in InfixOps \cup {anon_sym_QMARK, anon_sym_COLON}}
    \cup {Words(<<u1, u2, a, anon_sym_SEMI>>) :
            u1 \in PrefixOps, u2 \in PrefixOps, a \in LiteralSyms}

\* c1 ? a : c2 ? b : d ;
NestedTernaryInputs ==
    {Words(<<c1, anon_sym_QMARK, a, anon_sym_COLON, c2, anon_sym_QMARK, b,
             anon_sym_COLON, d, anon_sym_SEMI>>) :
        c1 \in {anon_sym_true, sym_number}, a \in {sym_number, sym_string},
        c2 \in {anon_sym_false, sym_number}, b \in {sym_number, sym_nil},
        d \in {sym_number, anon_sym_true}}

\* a group as the operand of an operator
GroupInputs ==
    LET groups == {<<anon_sym_LPAREN>> \o e \o <<anon_sym_RPAREN>> :
                      e \in ExprUpTo(MaxGroupOps, {sym_number})}
    IN  {Words(g \o <<op, sym_number, anon_sym_SEMI>>) :
            g \in groups, op \in InfixOps}
        \cup {Words(<<sym_number, op>> \o g \o <<anon_sym_SEMI>>) :
                g \in groups, op \in InfixOps}
        \cup {Words(<<u>> \o g \o <<anon_sym_SEMI>>) :
                g \in groups, u \in PrefixOps}

\* programs of up to MaxStmts statements, well formed or not
StatementPool ==
    {Words(<<sym_number, anon_sym_SEMI>>),
     Words(<<anon_sym_print, sym_number, anon_sym_SEMI>>),
     Words(<<sym_number, anon_sym_PLUS, anon_sym_true, anon_sym_SEMI>>),
     Words(<<anon_sym_print, anon_sym_SEMI>>),
     Words(<<sym_number, sym_number, anon_sym_SEMI>>),
     Words(<<anon_sym_RPAREN, anon_sym_SEMI>>),
     <<BadWord, Spelling[anon_sym_SEMI]>>,
     Words(<<sym_number, anon_sym_PLUS>>)}

RECURSIVE ProgramsOf(_)
ProgramsOf(n) ==
    IF n = 0 THEN {<<>>}
    ELSE {s \o p : s \in StatementPool, p \in ProgramsOf(n - 1)}

ProgramInputs == UNION {ProgramsOf(n) : n \in 0..MaxStmts}

\* every sequence of up to MaxTokens words
AllWords ==
    {Spelling[s] : s \in DOMAIN Spelling} \cup {BadWord} \cup PartialWords

RECURSIVE WordSeqs(_)
WordSeqs(n) ==
    IF n = 0 THEN {<<>>}
    ELSE {<<w>> \o ws : w \in AllWords, ws \in WordSeqs(n - 1)}

TokenInputs == UNION {WordSeqs(n) : n \in 0..MaxTokens}

\* programs of up to two statements written with other whitespace: a
\* newline or two spaces between the words, whitespace before the first
\* word and after the last
RenderWith(words, lead, sep, trail) ==
    lead \o Concat([i \in 1..Len(words) |->
                      (IF i = 1 THEN <<>> ELSE sep) \o words[i]]) \o trail

SpacingInputs ==
    UNION {{RenderWith(ws, <<>>, <<"\n">>, <<>>),
            RenderWith(ws, <<>>, <<" ", " ">>, <<"\n">>),
            RenderWith(ws, <<" ">>, <<"\t">>, <<" ", "\r">>)} :
              ws \in ProgramsOf(0) \cup ProgramsOf(1) \cup ProgramsOf(2)
                        \cup {Words(<<sym_number, anon_sym_PLUS,
                                      sym_number>>)}}

\* true ? t : nil ;  for every expression t of up to MaxGroupOps operators
\* over 1 and true
ThenBranchInputs ==
    {Words(<<anon_sym_true, anon_sym_QMARK>> \o t
               \o <<anon_sym_COLON, sym_nil, anon_sym_SEMI>>) :
        t \in ExprUpTo(MaxGroupOps, {sym_number, anon_sym_true})}

\* ( 1 ) ? - 1 : 1 + 1 ;  one expression of each kind that has fields
FieldInputs ==
    {Words(<<anon_sym_LPAREN, sym_number, anon_sym_RPAREN, anon_sym_QMARK,
             anon_sym_DASH, sym_number, anon_sym_COLON, sym_number,
             anon_sym_PLUS, sym_number, anon_sym_SEMI>>)}

\* texts without whitespace between the tokens, around the two-character
\* operators
OperatorTexts ==
    {<<"1", "<", "=", "1", ";">>,
     <<"1", ">", "=", "1", ";">>,
     <<"1", "!", "=", "1", ";">>,
     <<"1", "=", "=", "1", ";">>,
     <<"1", "<", "1", ";">>,
     <<"!", "1", "=", "=", "-", "1", ";">>,
     <<"1", "=", "1", ";">>,
     <<"1", "<", "=", "=", "1", ";">>,
     <<"!", "=", "1", ";">>}

\* every text of up to MaxNumberLen digits and points, as a statement
RECURSIVE NumberChars(_)
NumberChars(n) ==
    IF n = 0 THEN {<<>>}
    ELSE {<<c>> \o t : c \in {"1", "2", "."}, t \in NumberChars(n - 1)}

NumberTexts ==
    {t \o <<";">> : t \in UNION {NumberChars(n) : n \in 1..MaxNumberLen}}
        \cup {<<"1", ".", "2", ".", "3", ";">>}

\* every text of up to MaxStringLen quotes, letters, backslashes and
\* newlines, as a statement; and a string around a NUL byte
RECURSIVE StringChars(_)
StringChars(n) ==
    IF n = 0 THEN {<<>>}
    ELSE {<<c>> \o t : c \in {"\"", "a", "\\", "\n"},
                       t \in StringChars(n - 1)}

StringTexts ==
    {t \o <<";">> : t \in UNION {StringChars(n) : n \in 1..MaxStringLen}}
        \cup {<<"\"", "a", NUL, "a", "\"", ";">>}

\* the keywords with something written right behind them, the proper
\* prefixes of the keywords, and `print` with a literal right behind it
Keywords == {anon_sym_print, anon_sym_true, anon_sym_false, sym_nil}

KeywordFollowers ==
    {<<>>, <<";">>, <<"1">>, <<"1", ";">>, <<"x">>, <<"e">>, <<"(">>,
     <<"n", "i", "l", ";">>}

KeywordTexts ==
    {Spelling[k] \o f : k \in Keywords, f \in KeywordFollowers}
    \cup UNION {{SubSeq(Spelling[k], 1, n) \o f :
                    n \in 1..(Len(Spelling[k]) - 1),
                    f \in {<<>>, <<";">>, <<"1", ";">>}} : k \in Keywords}
    \cup {Spelling[anon_sym_print] \o Spelling[l] \o <<";">> :
             l \in LiteralSyms}

Inputs ==
    {Render(ws) : ws \in GrammarInputs \cup LiteralInputs \cup FieldInputs
                         \cup PrecedenceInputs \cup GroupInputs
                         \cup UnaryInputs \cup NestedTernaryInputs
                         \cup ThenBranchInputs
                         \cup ProgramInputs \cup TokenInputs}
    \cup SpacingInputs \cup OperatorTexts \cup NumberTexts \cup StringTexts
    \cup KeywordTexts

Init ==
    /\ input \in Inputs
    /\ pos = 0
    /\ stack = <<[state |-> START_STATE, node |-> NoNode]>>
    /\ lookahead = NoToken
    /\ pc = "lex"
    /\ errkids = <<>>
    /\ errors = 0

Next ==
    \/ Lex
    \/ LexError
    \/ Shift
    \/ Reduce
    \/ Accept
    \/ ParseError
    \/ RecoverSkip
    \/ RecoverSync

Spec == Init /\ [][Next]_vars

\* the parse loop is one sequential loop: a step that can be taken is taken
FairSpec == Spec /\ WF_vars(Next)

(***************************************************************************)
(* The result, and the input seen as words.                                *)
(***************************************************************************)
Root == Top.node

\* the shape of a tree as a consumer sees it: kinds and visible children
RECURSIVE Shape(_)
Shape(node) ==
    LET kids == VisibleKids(node)
    IN  [sym |-> node.sym, kids |-> [i \in 1..Len(kids) |-> Shape(kids[i])]]

\* the byte ranges of the words of the input: the maximal runs of bytes
\* that are not whitespace.  start is the offset of the word being read,
\* -1 between words.
RECURSIVE SplitWords(_, _, _)
SplitWords(i, start, acc) ==
    LET flushed == IF start < 0 THEN acc
                   ELSE Append(acc, [start |-> start, end |-> i - 1])
    IN  IF i > Len(input) THEN flushed
        ELSE IF input[i] \in Whitespace THEN SplitWords(i + 1, -1, flushed)
        ELSE SplitWords(i + 1, IF start < 0 THEN i - 1 ELSE start, acc)

WordSpans == SplitWords(1, -1, <<>>)

WordStart(i) == WordSpans[i].start

WordEnd(i) == WordSpans[i].end

\* the words of the input, and the token each of them spells
InputWords ==
    LET spans == WordSpans
    IN  [i \in 1..Len(spans) |->
            SubSeq(input, spans[i].start + 1, spans[i].end)]

SymOfWord(w) ==
    IF \E s \in DOMAIN Spelling : Spelling[s] = w
    THEN CHOOSE s \in DOMAIN Spelling : Spelling[s] = w
    ELSE NoSymbol

InputSyms ==
    LET words == InputWords
    IN  [i \in 1..Len(words) |-> SymOfWord(words[i])]

LeafSyms(node) == [i \in 1..Len(Leaves(node)) |-> Leaves(node)[i].sym]

\* the shapes the claims name
TokenShape(sym) == [sym |-> sym, kids |-> <<>>]

OperandShape(sym) ==
    IF sym \in {anon_sym_true, anon_sym_false}
    THEN [sym |-> sym_boolean, kids |-> <<TokenShape(sym)>>]
    ELSE TokenShape(sym)

BinaryShape(l, op, r) ==
    [sym |-> sym_binary_expression, kids |-> <<l, TokenShape(op), r>>]

TernaryShape(c, t, e) ==
    [sym |-> sym_ternary_expression,
     kids |-> <<c, TokenShape(anon_sym_QMARK), t,
                TokenShape(anon_sym_COLON), e>>]

UnaryShape(op, e) ==
    [sym |-> sym_unary_expression, kids |-> <<TokenShape(op), e>>]

GroupShape(e) ==
    [sym |-> sym_group_expression,
     kids |-> <<TokenShape(anon_sym_LPAREN), e,
                TokenShape(anon_sym_RPAREN)>>]

StatementShape(e) ==
    [sym |-> sym_expression_statement,
     kids |-> <<e, TokenShape(anon_sym_SEMI)>>]

PrintShape(e) ==
    [sym |-> sym_print_statement,
     kids |-> <<TokenShape(anon_sym_print), e, TokenShape(anon_sym_SEMI)>>]

ProgramShape(statements) == [sym |-> sym_program, kids |-> statements]

\* the input is the single statement `e ;` and the parse is over
IsStatementOf(syms) == pc = "done" /\ InputSyms = syms \o <<anon_sym_SEMI>>

ParsesTo(shape) == Shape(Root) = ProgramShape(<<StatementShape(shape)>>)

Level(op) ==
    CASE op \in EqualityOps -> 1
      [] op \in ComparisonOps -> 2
      [] op \in AdditiveOps -> 3
      [] op \in MultiplicativeOps -> 4

\* w is `a op1 b op2 c ;` with literal operands and binary operators
IsTwoOperatorStatement(w) ==
    /\ Len(w) = 6
    /\ w[1] \in LiteralSyms /\ w[3] \in LiteralSyms /\ w[5] \in LiteralSyms
    /\ w[2] \in BinaryOps /\ w[4] \in BinaryOps
    /\ w[6] = anon_sym_SEMI

\* binary(op2, binary(op1, a, b), c) and binary(op1, a, binary(op2, b, c))
LeftNested(w) ==
    BinaryShape(BinaryShape(OperandShape(w[1]), w[2], OperandShape(w[3])),
                w[4], OperandShape(w[5]))

RightNested(w) ==
    BinaryShape(OperandShape(w[1]), w[2],
                BinaryShape(OperandShape(w[3]), w[4], OperandShape(w[5])))

\* w is `a op b ? c : d ;` or `a ? b : c op d ;`
IsTernaryWithBinary(w, at) ==
    /\ Len(w) = 8
    /\ w[at] \in BinaryOps
    /\ \A i \in {1, 3, 5, 7} : w[i] \in LiteralSyms
    /\ w[IF at = 2 THEN 4 ELSE 2] = anon_sym_QMARK
    /\ w[IF at = 2 THEN 6 ELSE 4] = anon_sym_COLON
    /\ w[8] = anon_sym_SEMI

(***************************************************************************)
(* C1.  Precedence between levels: in `a op1 b op2 c;` with literal        *)
(* operands and two binary operators of different levels, the expression   *)
(* of the higher-level operator is an operand of the lower-level one,      *)
(* whichever comes first; a binary operator next to a ternary is inside    *)
(* the ternary's operand.                                                  *)
(***************************************************************************)
PrecedenceOf(w) ==
    /\ (IsTwoOperatorStatement(w) /\ Level(w[2]) # Level(w[4])) =>
          ParsesTo(IF Level(w[2]) > Level(w[4]) THEN LeftNested(w)
                   ELSE RightNested(w))
    /\ IsTernaryWithBinary(w, 2) =>
          ParsesTo(TernaryShape(BinaryShape(OperandShape(w[1]), w[2],
                                            OperandShape(w[3])),
                                OperandShape(w[5]), OperandShape(w[7])))
    /\ IsTernaryWithBinary(w, 6) =>
          ParsesTo(TernaryShape(OperandShape(w[1]), OperandShape(w[3]),
                                BinaryShape(OperandShape(w[5]), w[6],
                                            OperandShape(w[7]))))

PrecedenceBetweenLevels == pc = "done" => PrecedenceOf(InputSyms)

PrecedenceWitness ==
    /\ IsStatementOf(<<sym_number, anon_sym_PLUS, sym_number, anon_sym_STAR,
                       anon_sym_true>>)
    /\ ParsesTo(BinaryShape(TokenShape(sym_number), anon_sym_PLUS,
                            BinaryShape(TokenShape(sym_number), anon_sym_STAR,
                                        OperandShape(anon_sym_true))))
    /\ errors = 0

(***************************************************************************)
(* C2.  Left-associativity: for two operators of the same binary level,    *)
(* `a op1 b op2 c;` parses to binary(op2, binary(op1, a, b), c).           *)
(***************************************************************************)
LeftAssociativityOf(w) ==
    (IsTwoOperatorStatement(w) /\ Level(w[2]) = Level(w[4])) =>
        ParsesTo(LeftNested(w))

LeftAssociativity == pc = "done" => LeftAssociativityOf(InputSyms)

LeftAssociativityWitness ==
    /\ IsStatementOf(<<sym_number, anon_sym_DASH, sym_number, anon_sym_DASH,
                       sym_number>>)
    /\ ParsesTo(BinaryShape(BinaryShape(TokenShape(sym_number), anon_sym_DASH,
                                        TokenShape(sym_number)),
                            anon_sym_DASH, TokenShape(sym_number)))
    /\ errors = 0

(***************************************************************************)
(* C3.  Ternary right-associativity: a `?` behind the completed else       *)
(* operand of a ternary is shifted, and `c1 ? a : c2 ? b : d;` parses to   *)
(* ternary(c1, a, ternary(c2, b, d)).                                      *)
(***************************************************************************)
IsOperandNode(node) ==
    node.sym \in {sym_number, sym_string, sym_nil, sym_boolean,
                  sym_binary_expression, sym_ternary_expression,
                  sym_unary_expression, sym_group_expression}

\* the top of the stack is a complete operand right behind a `:`
ElseOperandComplete ==
    /\ Len(stack) >= 3
    /\ stack[Len(stack) - 1].node.sym = anon_sym_COLON
    /\ IsOperandNode(Top.node)

IsNestedTernary(w) ==
    /\ Len(w) = 10
    /\ \A i \in {1, 3, 5, 7, 9} : w[i] \in LiteralSyms
    /\ w[2] = anon_sym_QMARK /\ w[4] = anon_sym_COLON
    /\ w[6] = anon_sym_QMARK /\ w[8] = anon_sym_COLON
    /\ w[10] = anon_sym_SEMI

NestedTernaryOf(w) ==
    IsNestedTernary(w) =>
        ParsesTo(TernaryShape(OperandShape(w[1]), OperandShape(w[3]),
                              TernaryShape(OperandShape(w[5]),
                                           OperandShape(w[7]),
                                           OperandShape(w[9]))))

TernaryRightAssociativity ==
    /\ (pc = "parse" /\ lookahead.sym = anon_sym_QMARK /\ ElseOperandComplete)
          => CurrentAction.type = "shift"
    /\ pc = "done" => NestedTernaryOf(InputSyms)

TernaryRightAssociativityWitness ==
    /\ IsStatementOf(<<anon_sym_true, anon_sym_QMARK, sym_number,
                       anon_sym_COLON, anon_sym_false, anon_sym_QMARK,
                       sym_number, anon_sym_COLON, sym_number>>)
    /\ Shape(VisibleKids(VisibleKids(Root)[1])[1].kids[5]).sym
           = sym_ternary_expression
    /\ errors = 0

(***************************************************************************)
(* C4.  Unary binds tighter than every infix operator: with a complete     *)
(* operand behind a prefix `-` or `!`, every lookahead reduces             *)
(* unary_expression; `u a op b;` parses to binary(op, unary(u, a), b) and  *)
(* `u1 u2 a;` to unary(u1, unary(u2, a)).                                  *)
(***************************************************************************)
\* the entry below the top is a `-` or `!` in prefix position, the top is
\* a complete operand
UnaryOperandComplete ==
    /\ Len(stack) >= 3
    /\ stack[Len(stack) - 1].node.sym \in PrefixOps
    /\ ~IsOperandNode(stack[Len(stack) - 2].node)
    /\ IsOperandNode(Top.node)

UnaryOf(w) ==
    /\ (/\ Len(w) = 5
        /\ w[1] \in PrefixOps /\ w[2] \in LiteralSyms /\ w[3] \in InfixOps
        /\ w[4] \in LiteralSyms /\ w[5] = anon_sym_SEMI)
          => ParsesTo(BinaryShape(UnaryShape(w[1], OperandShape(w[2])), w[3],
                                  OperandShape(w[4])))
    /\ (/\ Len(w) = 4
        /\ w[1] \in PrefixOps /\ w[2] \in PrefixOps /\ w[3] \in LiteralSyms
        /\ w[4] = anon_sym_SEMI)
          => ParsesTo(UnaryShape(w[1], UnaryShape(w[2], OperandShape(w[3]))))

UnaryBindsTighter ==
    /\ (pc = "parse" /\ UnaryOperandComplete)
          => /\ CurrentAction.type = "reduce"
             /\ CurrentAction.symbol = sym_unary_expression
    /\ pc = "done" => UnaryOf(InputSyms)

UnaryBindsTighterWitness ==
    /\ IsStatementOf(<<anon_sym_DASH, sym_number, anon_sym_STAR, sym_number>>)
    /\ ParsesTo(BinaryShape(UnaryShape(anon_sym_DASH, TokenShape(sym_number)),
                            anon_sym_STAR, TokenShape(sym_number)))
    /\ errors = 0

(***************************************************************************)
(* The grammar of spec.md 4.2 as a recognizer of symbol sequences, with    *)
(* the infix operators `ops`.                                              *)
(***************************************************************************)
RECURSIVE IsExpr(_, _)
IsExpr(s, ops) ==
    LET n == Len(s)
    IN  \/ n = 1 /\ s[1] \in LiteralSyms
        \/ n >= 2 /\ s[1] \in PrefixOps /\ IsExpr(Tail(s), ops)
        \/ /\ n >= 3
           /\ s[1] = anon_sym_LPAREN /\ s[n] = anon_sym_RPAREN
           /\ IsExpr(SubSeq(s, 2, n - 1), ops)
        \/ \E k \in 2..(n - 1) :
              /\ s[k] \in ops
              /\ IsExpr(SubSeq(s, 1, k - 1), ops)
              /\ IsExpr(SubSeq(s, k + 1, n), ops)
        \/ \E k \in 2..(n - 3) :
              /\ s[k] = anon_sym_QMARK
              /\ IsExpr(SubSeq(s, 1, k - 1), ops)
              /\ \E m \in (k + 2)..(n - 1) :
                    /\ s[m] = anon_sym_COLON
                    /\ IsExpr(SubSeq(s, k + 1, m - 1), ops)
                    /\ IsExpr(SubSeq(s, m + 1, n), ops)

(***************************************************************************)
(* C5.  Grouping: an expression in parentheses is reduced to one           *)
(* group_expression, which is a single operand of the operator around it:  *)
(* `( E ) op x;` parses to binary(op, group(E), x), `x op ( E );` to       *)
(* binary(op, x, group(E)) and `u ( E );` to unary(u, group(E)).           *)
(***************************************************************************)
\* node is the group_expression of the words g = `( E )`
IsGroupOf(node, g) ==
    /\ node.sym = sym_group_expression
    /\ Len(node.kids) = 3
    /\ node.kids[1].sym = anon_sym_LPAREN
    /\ node.kids[3].sym = anon_sym_RPAREN
    /\ IsOperandNode(node.kids[2])
    /\ LeafSyms(node) = g

IsGroupWords(g) ==
    /\ Len(g) >= 3
    /\ g[1] = anon_sym_LPAREN /\ g[Len(g)] = anon_sym_RPAREN
    /\ IsExpr(SubSeq(g, 2, Len(g) - 1), InfixOps)

\* the expression of the only statement of the tree
OnlyExpression ==
    IF Len(Root.kids) = 1 /\ Root.kids[1].sym = sym_expression_statement
    THEN Root.kids[1].kids[1] ELSE NoNode

GroupingOf(w) ==
    LET n == Len(w)
        e == OnlyExpression
    IN  /\ (/\ n >= 6 /\ w[n] = anon_sym_SEMI /\ w[n - 1] \in LiteralSyms
            /\ w[n - 2] \in InfixOps /\ IsGroupWords(SubSeq(w, 1, n - 3)))
              => /\ e.sym = sym_binary_expression
                 /\ IsGroupOf(e.kids[1], SubSeq(w, 1, n - 3))
                 /\ e.kids[2].sym = w[n - 2]
                 /\ Shape(e.kids[3]) = OperandShape(w[n - 1])
        /\ (/\ n >= 6 /\ w[n] = anon_sym_SEMI /\ w[1] \in LiteralSyms
            /\ w[2] \in InfixOps /\ IsGroupWords(SubSeq(w, 3, n - 1)))
              => /\ e.sym = sym_binary_expression
                 /\ Shape(e.kids[1]) = OperandShape(w[1])
                 /\ e.kids[2].sym = w[2]
                 /\ IsGroupOf(e.kids[3], SubSeq(w, 3, n - 1))
        /\ (/\ n >= 5 /\ w[n] = anon_sym_SEMI /\ w[1] \in PrefixOps
            /\ IsGroupWords(SubSeq(w, 2, n - 1)))
              => /\ e.sym = sym_unary_expression
                 /\ e.kids[1].sym = w[1]
                 /\ IsGroupOf(e.kids[2], SubSeq(w, 2, n - 1))

GroupingOverridesPrecedence == pc = "done" => GroupingOf(InputSyms)

GroupingWitness ==
    /\ IsStatementOf(<<anon_sym_LPAREN, sym_number, anon_sym_PLUS, sym_number,
                       anon_sym_RPAREN, anon_sym_STAR, sym_number>>)
    /\ ParsesTo(BinaryShape(
                    GroupShape(BinaryShape(TokenShape(sym_number),
                                           anon_sym_PLUS,
                                           TokenShape(sym_number))),
                    anon_sym_STAR, TokenShape(sym_number)))
    /\ errors = 0

(***************************************************************************)
(* C6.  Statement nodes and the field `expression`.  As claimed: every     *)
(* print_statement has the field `expression` on child 1 and every         *)
(* expression_statement has it on child 0.                                 *)
(***************************************************************************)
StatementExpressionField ==
    \A i \in 1..Len(stack) :
        LET node == stack[i].node
        IN  /\ node.sym = sym_print_statement =>
                 /\ HasField(node, field_expression)
                 /\ ChildByField(node, field_expression) = node.kids[2]
            /\ node.sym = sym_expression_statement =>
                 /\ HasField(node, field_expression)
                 /\ ChildByField(node, field_expression) = node.kids[1]

(***************************************************************************)
(* C6, amended.  Statement nodes expose their expression by position       *)
(* only: child 1 of every print_statement and child 0 of every             *)
(* expression_statement is the expression, and neither node has a field.   *)
(***************************************************************************)
StatementExpressionByPosition ==
    \A i \in 1..Len(stack) :
        LET node == stack[i].node
        IN  /\ node.sym = sym_print_statement =>
                 /\ FieldEntries(node.production_id) = {}
                 /\ Len(node.kids) = 3
                 /\ node.kids[1].sym = anon_sym_print
                 /\ IsOperandNode(node.kids[2])
                 /\ node.kids[3].sym = anon_sym_SEMI
            /\ node.sym = sym_expression_statement =>
                 /\ FieldEntries(node.production_id) = {}
                 /\ Len(node.kids) = 2
                 /\ IsOperandNode(node.kids[1])
                 /\ node.kids[2].sym = anon_sym_SEMI

StatementExpressionWitness ==
    /\ pc = "done"
    /\ InputSyms = <<anon_sym_print, sym_number, anon_sym_SEMI>>
    /\ Len(Root.kids) = 1
    /\ Root.kids[1].sym = sym_print_statement
    /\ Root.kids[1].kids[2].sym = sym_number
    /\ ~HasField(Root.kids[1], field_expression)

(***************************************************************************)
(* Statements of the input: the words up to and including each `;`, and    *)
(* the words after the last `;`.  A statement is named by the index of its *)
(* last word.                                                              *)
(***************************************************************************)
Max(S) == CHOOSE x \in S : \A y \in S : y <= x
Min(S) == CHOOSE x \in S : \A y \in S : x <= y

StatementEnds(w) ==
    {i \in 1..Len(w) : w[i] = anon_sym_SEMI \/ i = Len(w)}

StatementStart(w, e) ==
    1 + Max({0} \cup {i \in 1..(e - 1) : w[i] = anon_sym_SEMI})

StatementSyms(w, e) == SubSeq(w, StatementStart(w, e), e)

\* the statements the tables accept: an expression, with `,` among the
\* operators, after an optional `print` and before `;`
IsStatement(c) ==
    LET n == Len(c)
    IN  /\ n >= 2
        /\ c[n] = anon_sym_SEMI
        /\ \/ IsExpr(SubSeq(c, 1, n - 1), InfixOps)
           \/ c[1] = anon_sym_print /\ IsExpr(SubSeq(c, 2, n - 1), InfixOps)

Malformed(w) == {e \in StatementEnds(w) : ~IsStatement(StatementSyms(w, e))}

(***************************************************************************)
(* The tree of an expression by the precedences of the grammar: `,` below  *)
(* `?:` below equality below comparison below additive below               *)
(* multiplicative below the prefix operators; the infix operators group to *)
(* the left and `?:` to the right.                                         *)
(***************************************************************************)
DepthBefore(s, i) ==
    Cardinality({j \in 1..(i - 1) :
                    s[j] \in {anon_sym_LPAREN, anon_sym_QMARK}})
    - Cardinality({j \in 1..(i - 1) :
                      s[j] \in {anon_sym_RPAREN, anon_sym_COLON}})

\* the positions of the operators of ops outside every group and every
\* `? :`, with an operand on their left
TopLevel(s, ops) ==
    {i \in 2..(Len(s) - 1) :
        /\ s[i] \in ops
        /\ DepthBefore(s, i) = 0
        /\ s[i - 1] \in LiteralSyms \cup {anon_sym_RPAREN}}

RECURSIVE RefExpr(_)
RefExpr(s) ==
    LET n == Len(s)
        Infix(k) == BinaryShape(RefExpr(SubSeq(s, 1, k - 1)), s[k],
                                RefExpr(SubSeq(s, k + 1, n)))
        commas == TopLevel(s, {anon_sym_COMMA})
        qmarks == TopLevel(s, {anon_sym_QMARK})
        equalities == TopLevel(s, EqualityOps)
        comparisons == TopLevel(s, ComparisonOps)
        additives == TopLevel(s, AdditiveOps)
        multiplicatives == TopLevel(s, MultiplicativeOps)
    IN  IF commas # {} THEN Infix(Max(commas))
        ELSE IF qmarks # {}
        THEN LET q == Min(qmarks)
                 c == Min({i \in (q + 1)..n :
                             /\ s[i] = anon_sym_COLON
                             /\ DepthBefore(s, i) = 1})
             IN  TernaryShape(RefExpr(SubSeq(s, 1, q - 1)),
                              RefExpr(SubSeq(s, q + 1, c - 1)),
                              RefExpr(SubSeq(s, c + 1, n)))
        ELSE IF equalities # {} THEN Infix(Max(equalities))
        ELSE IF comparisons # {} THEN Infix(Max(comparisons))
        ELSE IF additives # {} THEN Infix(Max(additives))
        ELSE IF multiplicatives # {} THEN Infix(Max(multiplicatives))
        ELSE IF s[1] \in PrefixOps THEN UnaryShape(s[1], RefExpr(Tail(s)))
        ELSE IF s[1] = anon_sym_LPAREN
        THEN GroupShape(RefExpr(SubSeq(s, 2, n - 1)))
        ELSE OperandShape(s[1])

RefStatement(c) ==
    IF c[1] = anon_sym_print
    THEN PrintShape(RefExpr(SubSeq(c, 2, Len(c) - 1)))
    ELSE StatementShape(RefExpr(SubSeq(c, 1, Len(c) - 1)))

\* the statements of w whose last words are at the indices of ends, in order
RECURSIVE RefStatements(_, _)
RefStatements(w, ends) ==
    IF ends = {} THEN <<>>
    ELSE <<RefStatement(StatementSyms(w, Min(ends)))>>
         \o RefStatements(w, ends \ {Min(ends)})

(***************************************************************************)
(* C7.  Recovery: a malformed statement gives one error node, a child of   *)
(* program, that covers the statement's tokens up to and including the     *)
(* next `;` (up to the end of input when there is none), and the           *)
(* statements after it have the subtrees that the same statements have in  *)
(* an input without the malformed statement.  The error node starts at the *)
(* malformed statement, or at the statement before it when that statement  *)
(* was not reduced yet.                                                    *)
(***************************************************************************)
ErrorKids(kids) ==
    {i \in 1..Len(kids) : kids[i].sym = ts_builtin_sym_error}

\* an input without malformed statement parses to its statements
WellFormedOf(w) ==
    Malformed(w) = {} =>
        Shape(Root) = ProgramShape(RefStatements(w, StatementEnds(w)))

RecoveryOf(w) ==
    Cardinality(Malformed(w)) = 1 =>
        LET ends == StatementEnds(w)
            e == CHOOSE x \in Malformed(w) : TRUE
            kids == VisibleKids(Root)
            i == CHOOSE x \in ErrorKids(kids) : TRUE
            starts == {StatementStart(w, x) : x \in {y \in ends : y <= e}}
            after == {x \in ends : x > e}
        IN  /\ Root.sym = sym_program
            /\ Cardinality(ErrorKids(kids)) = 1
            /\ kids[i].end = WordEnd(e)
            /\ kids[i].start \in
                   {WordStart(x) : x \in {y \in starts :
                       Cardinality({z \in starts : z > y}) <= 1}}
            /\ [j \in 1..(Len(kids) - i) |-> Shape(kids[i + j])]
                   = RefStatements(w, after)

\* the input is written as words of the model between whitespace
WrittenInWords == \A i \in 1..Len(InputWords) : InputWords[i] \in AllWords

Accepted ==
    /\ pc = "done"
    /\ Len(stack) = 2
    /\ Root.sym = sym_program
    /\ lookahead.sym = ts_builtin_sym_end

Termination == <>Accepted

\* a parse with a byte no mode recognises, an unexpected token and an early
\* end has been accepted
TerminationWitness ==
    /\ Accepted
    /\ errors >= 2
    /\ InputWords = <<BadWord, Spelling[anon_sym_SEMI],
                      Spelling[sym_number], Spelling[sym_number],
                      Spelling[anon_sym_SEMI], Spelling[sym_number],
                      Spelling[anon_sym_PLUS]>>

(***************************************************************************)
(* C9.  Byte coverage: in the tree returned the leaves are in strictly     *)
(* increasing byte order without overlap, the range of a node runs from    *)
(* the start of its first child to the end of its last child, the bytes    *)
(* outside the leaves are whitespace, and the slices of the leaves with    *)
(* the whitespace between them are the input: the slice of a token is the  *)
(* spelling of its kind (a string runs from a quote to the next quote) and *)
(* the slice of an error leaf is one byte that is not whitespace.          *)
(***************************************************************************)
RECURSIVE RangeOfChildren(_)
RangeOfChildren(node) ==
    node.kids # <<>> =>
        /\ node.start = node.kids[1].start
        /\ node.end = node.kids[Len(node.kids)].end
        /\ \A i \in 1..Len(node.kids) : RangeOfChildren(node.kids[i])

Slice(node) == SubSeq(input, node.start + 1, node.end)

LeavesInOrder(leaves) ==
    /\ \A i \in 1..Len(leaves) :
          /\ 0 <= leaves[i].start
          /\ leaves[i].start < leaves[i].end
          /\ leaves[i].end <= Len(input)
    /\ \A i \in 1..(Len(leaves) - 1) : leaves[i].end <= leaves[i + 1].start

\* the spelling of a number: digits, with at most one point between digits
IsNumberText(t) ==
    /\ t # <<>>
    /\ \A i \in 1..Len(t) : t[i] \in Digits \cup {"."}
    /\ Cardinality({i \in 1..Len(t) : t[i] = "."}) <= 1
    /\ t[1] \in Digits
    /\ t[Len(t)] \in Digits

LeavesSpellInput(leaves) ==
    /\ \A i \in 1..Len(leaves) :
          IF leaves[i].sym = ts_builtin_sym_error
          THEN /\ Len(Slice(leaves[i])) = 1
               /\ Slice(leaves[i])[1] \notin Whitespace
          ELSE IF leaves[i].sym = sym_string
          THEN /\ Len(Slice(leaves[i])) >= 2
               /\ Slice(leaves[i])[1] = "\""
               /\ Slice(leaves[i])[Len(Slice(leaves[i]))] = "\""
          ELSE IF leaves[i].sym = sym_number
          THEN IsNumberText(Slice(leaves[i]))
          ELSE Slice(leaves[i]) = Spelling[leaves[i].sym]
    /\ \A b \in 1..Len(input) :
          \/ input[b] \in Whitespace
          \/ \E i \in 1..Len(leaves) :
                leaves[i].start < b /\ b <= leaves[i].end

ByteCoverage ==
    pc = "done" =>
        /\ LeavesInOrder(Leaves(Root))
        /\ RangeOfChildren(Root)
        /\ LeavesSpellInput(Leaves(Root))

\* @ ; 1 + true ;  with a space before, tabs between the words and a space
\* and a carriage return after: an error node over a byte that no mode
\* recognises, then a statement
ByteCoverageWitness ==
    /\ pc = "done"
    /\ input = <<" ", "@", "\t", ";", "\t", "1", "\t", "+", "\t",
                 "t", "r", "u", "e", "\t", ";", " ", "\r">>
    /\ Len(VisibleKids(Root)) = 2
    /\ Len(Leaves(Root)) = 6
    /\ \E i \in 1..Len(Leaves(Root)) :
          /\ Leaves(Root)[i].sym = ts_builtin_sym_error
          /\ Slice(Leaves(Root)[i]) = BadWord
    /\ Root.start = 1
    /\ Root.end = 15

(***************************************************************************)
(* C10.  Completeness against the grammar: a program of the grammar of     *)
(* spec.md 4.2, written with whitespace between its tokens, is lexed in    *)
(* the modes of the parse states into exactly its tokens and is parsed to  *)
(* Accept without lookup miss and without recovery.                        *)
(***************************************************************************)
\* the statements of the grammar: an expression over the ten binary
\* operators, after an optional `print` and before `;`
IsGrammarStatement(c) ==
    LET n == Len(c)
    IN  /\ n >= 2
        /\ c[n] = anon_sym_SEMI
        /\ \/ IsExpr(SubSeq(c, 1, n - 1), BinaryOps)
           \/ c[1] = anon_sym_print /\ IsExpr(SubSeq(c, 2, n - 1), BinaryOps)

IsGrammarProgram(w) ==
    \A e \in StatementEnds(w) : IsGrammarStatement(StatementSyms(w, e))

\* the tokens shifted so far, in order
Shifted == Concat([i \in 1..(Len(stack) - 1) |-> Leaves(stack[i + 1].node)])

\* the parse so far is the parse of the first words of w: no recovery, the
\* tokens shifted are those words byte for byte, and the lookahead is the
\* word after them, or the end of input after the last
OnTrack(w) ==
    LET shifted == Shifted
        spans == WordSpans
        n == Len(shifted)
    IN  /\ errors = 0
        /\ pc # "recover"
        /\ n <= Len(w)
        /\ \A i \in 1..n :
              /\ shifted[i].sym = w[i]
              /\ shifted[i].start = spans[i].start
              /\ shifted[i].end = spans[i].end
        /\ pc \in {"parse", "done"} =>
              IF n < Len(w)
              THEN /\ lookahead.sym = w[n + 1]
                   /\ lookahead.start = spans[n + 1].start
                   /\ lookahead.end = spans[n + 1].end
              ELSE lookahead.sym = ts_builtin_sym_end
        /\ pc = "parse" => CurrentAction.type \in {"shift", "reduce", "accept"}
        /\ pc = "done" => n = Len(w) /\ Root.sym = sym_program

GrammarCompleteness == ~OnTrack(InputSyms) => ~IsGrammarProgram(InputSyms)

\* print 1 ; 1 + true ;  has been accepted
GrammarCompletenessWitness ==
    /\ pc = "done"
    /\ OnTrack(InputSyms)
    /\ InputSyms = <<anon_sym_print, sym_number, anon_sym_SEMI,
                     sym_number, anon_sym_PLUS, anon_sym_true, anon_sym_SEMI>>
    /\ Len(VisibleKids(Root)) = 2


(***************************************************************************)
(* C11.  The then branch of a ternary is unrestricted: between `?` and its *)
(* `:` every expression is accepted, another ternary included, and it is   *)
(* the then child of the ternary:  a ? b ? c : d : e ;  parses without     *)
(* error to ternary(a, ternary(b, c, d), e).                               *)
(***************************************************************************)
\* w is  a ? t : e ;  with literals a and e and an expression t
IsThenBranchStatement(w) ==
    LET n == Len(w)
    IN  /\ n >= 6
        /\ w[1] \in LiteralSyms
        /\ w[2] = anon_sym_QMARK
        /\ w[n - 2] = anon_sym_COLON
        /\ w[n - 1] \in LiteralSyms
        /\ w[n] = anon_sym_SEMI
        /\ IsExpr(SubSeq(w, 3, n - 3), InfixOps)

ThenBranchOf(w) ==
    IsThenBranchStatement(w) =>
        /\ errors = 0
        /\ ParsesTo(TernaryShape(OperandShape(w[1]),
                                 RefExpr(SubSeq(w, 3, Len(w) - 3)),
                                 OperandShape(w[Len(w) - 1])))

ThenBranchUnrestricted == pc = "done" => ThenBranchOf(InputSyms)

\* true ? 1 ? true : 1 : nil ;
ThenBranchWitness ==
    /\ pc = "done"
    /\ errors = 0
    /\ InputSyms = <<anon_sym_true, anon_sym_QMARK, sym_number,
                     anon_sym_QMARK, anon_sym_true, anon_sym_COLON,
                     sym_number, anon_sym_COLON, sym_nil, anon_sym_SEMI>>
    /\ ParsesTo(TernaryShape(
           OperandShape(anon_sym_true),
           TernaryShape(TokenShape(sym_number), OperandShape(anon_sym_true),
                        TokenShape(sym_number)),
           TokenShape(sym_nil)))


(***************************************************************************)
(* C12.  Field maps of the expression productions: a group_expression      *)
(* labels child 1 `expression`, a unary_expression child 1 `right`, a      *)
(* binary_expression child 0 `left` and child 2 `right`, a                 *)
(* ternary_expression child 0 `condition`, child 2 `then` and child 4      *)
(* `else`; in every production the child index of a field is smaller than  *)
(* the child count and no field name is listed twice.                      *)
(***************************************************************************)
ExpressionFields ==
    (sym_group_expression :> {<<field_expression, 1>>}) @@
    (sym_unary_expression :> {<<field_right, 1>>}) @@
    (sym_binary_expression :> {<<field_left, 0>>, <<field_right, 2>>}) @@
    (sym_ternary_expression :>
        {<<field_condition, 0>>, <<field_then, 2>>, <<field_else, 4>>})

FieldsOf(production_id) ==
    {<<e.field_id, e.child_index>> : e \in FieldEntries(production_id)}

\* every reduce action of the table
ReduceActions ==
    UNION {{ts_parse_actions[i][j] : j \in 1..Len(ts_parse_actions[i])} :
              i \in DOMAIN ts_parse_actions}
    \cap [type : {"reduce"}, state : Nat, symbol : Nat, child_count : Nat,
          production_id : Nat, repetition : BOOLEAN]

FieldMapsValid ==
    /\ \A a \in ReduceActions :
          /\ a.production_id < PRODUCTION_ID_COUNT
          /\ \A f \in FieldsOf(a.production_id) : f[2] < a.child_count
          /\ a.symbol \in DOMAIN ExpressionFields =>
                FieldsOf(a.production_id) = ExpressionFields[a.symbol]
    /\ \A p \in 0..(PRODUCTION_ID_COUNT - 1) :
          \A f, g \in FieldsOf(p) : f[1] = g[1] => f = g

\* the node a reduction has just pushed resolves its fields by position
FieldsOfNode(node) ==
    node.sym \in DOMAIN ExpressionFields =>
        /\ FieldsOf(node.production_id) = ExpressionFields[node.sym]
        /\ \A f \in ExpressionFields[node.sym] :
              /\ f[2] < Len(node.kids)
              /\ HasField(node, f[1])
              /\ ChildByField(node, f[1]) = node.kids[f[2] + 1]

ExpressionFieldMaps ==
    /\ FieldMapsValid
    /\ \A i \in 1..Len(stack) : FieldsOfNode(stack[i].node)

\* ( 1 ) ? - 1 : 1 + 1 ;  at the reduction of the ternary
ExpressionFieldMapsWitness ==
    /\ Top.node.sym = sym_ternary_expression
    /\ ChildByField(Top.node, field_condition).sym = sym_group_expression
    /\ ChildByField(ChildByField(Top.node, field_condition),
                    field_expression).sym = sym_number
    /\ ChildByField(Top.node, field_then).sym = sym_unary_expression
    /\ ChildByField(ChildByField(Top.node, field_then),
                    field_right).sym = sym_number
    /\ ChildByField(Top.node, field_else).sym = sym_binary_expression
    /\ ChildByField(ChildByField(Top.node, field_else),
                    field_left).start = 14
    /\ ChildByField(ChildByField(Top.node, field_else),
                    field_right).start = 18


(***************************************************************************)
(* C13.  Accept happens only when the lookahead is end of input and the    *)
(* stack holds exactly the start state and one entry whose node is         *)
(* program; the accepting state is entered only by the goto on program     *)
(* from the start state, and one root node is returned.                    *)
(***************************************************************************)
ACCEPT_STATE == ts_language_next_state(START_STATE, sym_program)

States == 0..(STATE_COUNT - 1)
Terminals == 0..(TOKEN_COUNT - 1)
Nonterminals == TOKEN_COUNT..(SYMBOL_COUNT - 1)

ActionsOf(s, t) ==
    {ts_language_actions(s, t)[j] : j \in 1..Len(ts_language_actions(s, t))}

\* in the table: accept is listed for end of input in the accepting state
\* only, and nothing but the goto on program from the start state leads there
AcceptInTable ==
    /\ ACCEPT_STATE # 0
    /\ \A s \in States : \A t \in Terminals : \A a \in ActionsOf(s, t) :
          /\ a.type = "accept" =>
                s = ACCEPT_STATE /\ t = ts_builtin_sym_end
          /\ a.type = "shift" => a.state # ACCEPT_STATE
    /\ \A s \in States : \A n \in Nonterminals :
          ts_language_next_state(s, n) = ACCEPT_STATE =>
              s = START_STATE /\ n = sym_program

ProgramAlone ==
    /\ Len(stack) = 2
    /\ stack[1].state = START_STATE
    /\ stack[2].state = ACCEPT_STATE
    /\ stack[2].node.sym = sym_program

AcceptOnlyProgram ==
    /\ AcceptInTable
    /\ (pc = "parse" /\ CurrentAction.type = "accept") =>
          lookahead.sym = ts_builtin_sym_end /\ ProgramAlone
    /\ (\E i \in 1..Len(stack) : stack[i].state = ACCEPT_STATE) =>
          ProgramAlone
    /\ pc = "done" =>
          /\ lookahead.sym = ts_builtin_sym_end
          /\ ProgramAlone
          /\ Root = stack[2].node

\* print 1 ; 1 ;  about to be accepted
AcceptOnlyProgramWitness ==
    /\ pc = "parse"
    /\ CurrentAction.type = "accept"
    /\ InputSyms = <<anon_sym_print, sym_number, anon_sym_SEMI,
                     sym_number, anon_sym_SEMI>>
    /\ lookahead.sym = ts_builtin_sym_end
    /\ ProgramAlone
    /\ Len(VisibleKids(Top.node)) = 2


(***************************************************************************)
(* C14.  Statement order is preserved through the repetition helper: for   *)
(* an input of n well-formed statements, n >= 0, the program node has,     *)
(* after the hidden program_repeat1 nodes are flattened, exactly n         *)
(* statement children, the i-th of them over the words of the i-th         *)
(* statement: none is dropped, duplicated or out of order.                 *)
(***************************************************************************)
\* the index of the last word of the i-th statement of w
RECURSIVE NthEnd(_, _)
NthEnd(ends, i) ==
    IF i = 1 THEN Min(ends) ELSE NthEnd(ends \ {Min(ends)}, i - 1)

StatementOrderOf(w) ==
    Malformed(w) = {} =>
        LET ends == StatementEnds(w)
            kids == VisibleKids(Root)
        IN  /\ errors = 0
            /\ Root.sym = sym_program
            /\ Len(kids) = Cardinality(ends)
            /\ \A i \in 1..Len(kids) :
                  LET e == NthEnd(ends, i)
                  IN  /\ kids[i].sym = IF w[StatementStart(w, e)]
                                            = anon_sym_print
                                       THEN sym_print_statement
                                       ELSE sym_expression_statement
                      /\ kids[i].start = WordStart(StatementStart(w, e))
                      /\ kids[i].end = WordEnd(e)
                      /\ LeafSyms(kids[i]) = StatementSyms(w, e)

StatementOrder == pc = "done" => StatementOrderOf(InputSyms)

\* 1 + true ; print 1 ; 1 ;
StatementOrderWitness ==
    /\ pc = "done"
    /\ InputSyms = <<sym_number, anon_sym_PLUS, anon_sym_true, anon_sym_SEMI,
                     anon_sym_print, sym_number, anon_sym_SEMI,
                     sym_number, anon_sym_SEMI>>
    /\ [i \in 1..3 |-> VisibleKids(Root)[i].sym]
           = <<sym_expression_statement, sym_print_statement,
               sym_expression_statement>>
    /\ [i \in 1..3 |-> VisibleKids(Root)[i].start] = <<0, 11, 21>>
    /\ Root.kids[1].sym = aux_sym_program_repeat1
    /\ Root.kids[1].kids[1].sym = aux_sym_program_repeat1


(***************************************************************************)
(* C15.  The lexical mode where an operand is expected.  As claimed: in    *)
(* every state entered by the shift of an infix operator, a prefix         *)
(* operator, `?`, `:` or `(`, the mode does not recognise `print`, while   *)
(* the mode at the start of a statement does.  In the table: those states  *)
(* have the mode of the start of a statement, which recognises `print`;    *)
(* the parse table has no action for `print` in them, so that a `print`    *)
(* in the place of an operand is lexed as the keyword and starts error     *)
(* recovery as an unexpected token.                                        *)
(***************************************************************************)
OperandOpeners ==
    InfixOps \cup PrefixOps
        \cup {anon_sym_QMARK, anon_sym_COLON, anon_sym_LPAREN}

\* the states entered by the shift of an operand opener
OperandStates ==
    {a.state : a \in {x \in UNION {ActionsOf(s, t) :
                                      s \in States, t \in OperandOpeners} :
                         x.type = "shift"}}

\* the states where a statement starts
StatementStartStates == StatementStates \ {ERROR_STATE}

Recognises(mode, sym) ==
    next_token(Spelling[sym], 0, mode)
        = [sym |-> sym, start |-> 0, end |-> Len(Spelling[sym])]

AfterOpener ==
    /\ Len(stack) >= 2
    /\ Top.node.kids = <<>>
    /\ Top.node.sym \in OperandOpeners

\* the start of a parse: what holds of the tables and the lexer alone is
\* stated there, once for every input
AtStart == pc = "lex" /\ pos = 0 /\ Len(stack) = 1 /\ errors = 0

OperandModeExcludesPrint ==
    /\ AtStart => \A s \in StatementStartStates :
                      Recognises(ts_lex_modes[s], anon_sym_print)
    /\ AfterOpener => ~Recognises(ts_lex_modes[Top.state], anon_sym_print)

OperandModeInTable ==
    /\ OperandStates # {}
    /\ \A s \in OperandStates :
          /\ ts_lex_modes[s] = ts_lex_modes[START_STATE]
          /\ Recognises(ts_lex_modes[s], anon_sym_print)
          /\ ts_language_actions(s, anon_sym_print) = <<>>
    /\ \A s \in StatementStartStates :
          /\ ts_lex_modes[s] = ts_lex_modes[START_STATE]
          /\ Recognises(ts_lex_modes[s], anon_sym_print)
          /\ ts_language_actions(s, anon_sym_print) # <<>>

OperandModeIsStatementMode ==
    /\ AtStart => OperandModeInTable
    /\ AfterOpener =>
          /\ Top.state \in OperandStates
          /\ pc = "parse" /\ lookahead.sym = anon_sym_print =>
                CurrentAction.type = "none"

\* ( print : the keyword is the lookahead after `(` and no action exists
OperandModeWitness ==
    /\ pc = "parse"
    /\ InputSyms = <<anon_sym_LPAREN, anon_sym_print>>
    /\ AfterOpener
    /\ Top.node.sym = anon_sym_LPAREN
    /\ lookahead = [sym |-> anon_sym_print, start |-> 2, end |-> 7]
    /\ CurrentAction.type = "none"
    /\ errors = 0


(***************************************************************************)
(* C16.  The lexical mode after a completed operand.  As claimed: it       *)
(* recognises each of == != < <= > >= + - * / ? : ; , ) and, when only     *)
(* whitespace remains, returns the end of input token.  In the lexer: the  *)
(* fifteen tokens are recognised, and at the end of the input the mode     *)
(* returns no token.                                                       *)
(***************************************************************************)
OperandClosers == LiteralSyms \cup {anon_sym_RPAREN}

ExpressionSymbols == sym__expression..sym_boolean

\* the states entered by the shift of a literal or `)` and by the goto on
\* an expression
AfterOperandStates ==
    {a.state : a \in {x \in UNION {ActionsOf(s, t) :
                                      s \in States, t \in OperandClosers} :
                         x.type = "shift"}}
    \cup ({ts_language_next_state(s, n) :
              s \in States \ {ERROR_STATE}, n \in ExpressionSymbols} \ {0})

ContinuationTokens ==
    InfixOps \cup {anon_sym_QMARK, anon_sym_COLON, anon_sym_SEMI,
                   anon_sym_RPAREN}

\* only whitespace is left in the input from offset o on
OnlyWhitespaceFrom(o) ==
    \A i \in (o + 1)..Len(input) : input[i] \in Whitespace

ContinuationTokensRecognised ==
    /\ AfterOperandStates # {}
    /\ Cardinality(ContinuationTokens) = 15
    /\ \A s \in AfterOperandStates : \A t \in ContinuationTokens :
          Recognises(ts_lex_modes[s], t)

AtEndAfterOperand ==
    /\ pc = "lex"
    /\ Top.state \in AfterOperandStates
    /\ OnlyWhitespaceFrom(pos)

OperatorModeReturnsEnd ==
    /\ AtStart => ContinuationTokensRecognised
    /\ AtEndAfterOperand =>
          next_token(input, pos, ts_lex_modes[Top.state]).sym
              = ts_builtin_sym_end

OperatorModeNoEnd ==
    /\ AtStart =>
          /\ ContinuationTokensRecognised
          /\ \A s \in AfterOperandStates :
                /\ next_token(<<>>, 0, ts_lex_modes[s]).sym = NoSymbol
                /\ next_token(<<" ", "\n">>, 0, ts_lex_modes[s]).sym
                       = NoSymbol
    /\ AtEndAfterOperand =>
          next_token(input, pos, ts_lex_modes[Top.state]).sym = NoSymbol

\* 1 + 1 between whitespace: after the second 1 a space and a carriage
\* return remain and the lexer returns no token
OperatorModeWitness ==
    /\ AtEndAfterOperand
    /\ input = <<" ", "1", "\t", "+", "\t", "1", " ", "\r">>
    /\ pos = 6
    /\ errors = 0
    /\ Top.node.sym = sym_number
    /\ next_token(input, pos, ts_lex_modes[Top.state]).sym = NoSymbol


(***************************************************************************)
(* C17.  Token sets restricted by mode.  The mode after a completed        *)
(* operand never returns number, string, true, false, nil, print, `(` or   *)
(* the prefix `!`; the mode of a statement start and of an expected        *)
(* operand never returns == != < <= > >= + * / ? : ; , or `)`.  Hence a    *)
(* `-` shifted after a completed operand is reduced as the operator of a   *)
(* binary expression, and a `-` shifted where an operand is expected as    *)
(* the operator of a unary expression: 1 - - 1 ; is binary(1, -,           *)
(* unary(-, 1)).                                                           *)
(***************************************************************************)
OPERATOR_MODE == 1
OPERAND_MODE == 19

OperandOnlyTokens ==
    LiteralSyms \cup {anon_sym_print, anon_sym_LPAREN, anon_sym_BANG}

OperatorOnlyTokens == ContinuationTokens \ {anon_sym_DASH}

\* the texts the lexer is tried on: every word, alone, after whitespace
\* and before another `=`
LexTexts ==
    AllWords \cup {<<" ">> \o w : w \in AllWords}
             \cup {w \o <<"=">> : w \in AllWords}

\* the states entered by the shift of `print`
AfterPrintStates ==
    {a.state : a \in {x \in UNION {ActionsOf(s, anon_sym_print) :
                                      s \in States} : x.type = "shift"}}

\* the states where an operand is expected or a statement starts
OperandExpectedStates ==
    OperandStates \cup AfterPrintStates \cup StatementStartStates

ModeTokenSets ==
    /\ \A s \in AfterOperandStates : ts_lex_modes[s] = OPERATOR_MODE
    /\ \A s \in OperandExpectedStates : ts_lex_modes[s] = OPERAND_MODE
    /\ \A w \in LexTexts :
          /\ next_token(w, 0, OPERATOR_MODE).sym \notin OperandOnlyTokens
          /\ next_token(w, 0, OPERAND_MODE).sym \notin OperatorOnlyTokens

\* the token the lexer returns at the position of the parse
TokenHere == next_token(input, pos, ts_lex_modes[Top.state])

IsDashLeaf(node) == node.sym = anon_sym_DASH /\ node.kids = <<>>

\* a reduction is about to pop the `-` at stack entry i
ReducesDashAt(i) ==
    /\ pc = "parse"
    /\ CurrentAction.type = "reduce"
    /\ i \in 2..Len(stack)
    /\ i > Len(stack) - CurrentAction.child_count
    /\ IsDashLeaf(stack[i].node)

\* the `-` at entry i is the operator of the binary expression reduced
DashReducedAsBinary(i) ==
    /\ CurrentAction.symbol = sym_binary_expression
    /\ CurrentAction.child_count = 3
    /\ i = Len(stack) - 1

DashReducedAsUnary(i) ==
    /\ CurrentAction.symbol = sym_unary_expression
    /\ CurrentAction.child_count = 2
    /\ i = Len(stack) - 1

ModeRestrictedTokens ==
    /\ AtStart => ModeTokenSets
    /\ pc = "lex" =>
          /\ ts_lex_modes[Top.state] = OPERATOR_MODE
                => TokenHere.sym \notin OperandOnlyTokens
          /\ ts_lex_modes[Top.state] = OPERAND_MODE
                => TokenHere.sym \notin OperatorOnlyTokens
    /\ \A i \in 2..Len(stack) :
          IsDashLeaf(stack[i].node) =>
             /\ stack[i - 1].state \in AfterOperandStates
                    <=> stack[i - 1].node.sym \in ExpressionSymbols
                                                     \cup OperandClosers
             /\ stack[i - 1].state
                    \in AfterOperandStates \cup OperandExpectedStates
             /\ ReducesDashAt(i) =>
                   IF stack[i - 1].state \in AfterOperandStates
                   THEN DashReducedAsBinary(i)
                   ELSE DashReducedAsUnary(i)

\* 1 - - 1 ; is parsed: the first `-` is the operator of a binary
\* expression whose right operand is the unary expression of the second
ModeRestrictedWitness ==
    /\ IsStatementOf(<<sym_number, anon_sym_DASH, anon_sym_DASH,
                       sym_number>>)
    /\ ParsesTo(BinaryShape(TokenShape(sym_number), anon_sym_DASH,
                            UnaryShape(anon_sym_DASH,
                                       TokenShape(sym_number))))
    /\ errors = 0


(***************************************************************************)
(* C18.  Maximal munch.  In every mode that recognises `<` or `>`, the     *)
(* character followed by `=` is the single token `<=` or `>=`; `!=` and    *)
(* `==` are single tokens of two characters in the modes that have them;   *)
(* a token ends at the last position where the lexer was in an accepting   *)
(* state; `=` alone is no token in any mode.                               *)
(***************************************************************************)
LexModes == {ts_lex_modes[s] : s \in States}

Token(sym, start, end) == [sym |-> sym, start |-> start, end |-> end]

\* what follows the operator in the texts the lexer is tried on
Followers == {<<>>, <<"=">>, <<"1">>, <<" ">>, <<";">>, <<"<">>}

WithEquals ==
    (anon_sym_LT :> anon_sym_LT_EQ) @@ (anon_sym_GT :> anon_sym_GT_EQ)

TwoCharacterTokens(m) ==
    /\ \A p \in DOMAIN WithEquals : \A f \in Followers :
          next_token(Spelling[p], 0, m).sym = p =>
             next_token(Spelling[p] \o <<"=">> \o f, 0, m)
                 = Token(WithEquals[p], 0, 2)
    /\ \A t \in {anon_sym_EQ_EQ, anon_sym_BANG_EQ} : \A f \in Followers :
          Recognises(m, t) =>
             next_token(Spelling[t] \o f, 0, m) = Token(t, 0, 2)
    /\ \A f \in Followers \ {<<"=">>} :
          next_token(<<"=">> \o f, 0, m).sym = NoSymbol

\* the modes that have the token
ModesOf(sym) == {m \in LexModes : Recognises(m, sym)}

TwoCharacterModes ==
    /\ LexModes = {0, OPERATOR_MODE, OPERAND_MODE}
    /\ ModesOf(anon_sym_LT) = {0, OPERATOR_MODE}
    /\ ModesOf(anon_sym_GT) = {0, OPERATOR_MODE}
    /\ ModesOf(anon_sym_EQ_EQ) = {0, OPERATOR_MODE}
    /\ ModesOf(anon_sym_BANG_EQ) = {0, OPERATOR_MODE}
    \* where an operand is expected `!=` is no token: `!` is
    /\ next_token(<<"!", "=">>, 0, OPERAND_MODE) = Token(anon_sym_BANG, 0, 1)

\* the token at offset o in mode m ends at the last offset e such that the
\* text up to e is a token by itself
EndsAtLastAccepting(o, m) ==
    LET tok == next_token(input, o, m)
    IN  tok.sym # NoSymbol =>
           /\ next_token(SubSeq(input, 1, tok.end), o, m) = tok
           /\ \A e \in (tok.end + 1)..Len(input) :
                 next_token(SubSeq(input, 1, e), o, m).end # e

\* the mode the lexer runs in at this point of the parse
ModeHere ==
    IF pc = "recover" THEN ts_lex_modes[ERROR_STATE]
    ELSE ts_lex_modes[Top.state]

MaximalMunch ==
    /\ AtStart => /\ TwoCharacterModes
                  /\ \A m \in LexModes : TwoCharacterTokens(m)
    /\ pc \in {"lex", "recover"} =>
          /\ EndsAtLastAccepting(pos, ModeHere)
          /\ \A p \in DOMAIN WithEquals :
                (/\ pos + 2 <= Len(input)
                 /\ input[pos + 1] = Spelling[p][1]
                 /\ input[pos + 2] = "="
                 /\ Recognises(ModeHere, p))
                   => next_token(input, pos, ModeHere)
                          = Token(WithEquals[p], pos, pos + 2)

\* 1<=1; : after the 1, `<=` is one token of two characters
MaximalMunchWitness ==
    /\ pc = "parse"
    /\ input = <<"1", "<", "=", "1", ";">>
    /\ Top.node.sym = sym_number
    /\ lookahead = Token(anon_sym_LT_EQ, 1, 3)
    /\ errors = 0


(***************************************************************************)
(* C19.  Number tokens.  A number is one or more digits, optionally        *)
(* followed by one `.` and one or more digits.  A `.` that no digit        *)
(* follows is not part of the token: the number of 1.; is 1.  A second     *)
(* `.` ends the token: the number of 1.2.3 is 1.2.                         *)
(***************************************************************************)
\* the end of the run of digits that starts at offset o
DigitsEnd(o) ==
    CHOOSE e \in o..Len(input) :
        /\ \A i \in (o + 1)..e : input[i] \in Digits
        /\ e < Len(input) => input[e + 1] \notin Digits

\* the end of the number that starts at offset o, by the definition
NumberEnd(o) ==
    LET d == DigitsEnd(o)
    IN  IF /\ d + 2 <= Len(input)
           /\ input[d + 1] = "."
           /\ input[d + 2] \in Digits
        THEN DigitsEnd(d + 1)
        ELSE d

\* the offset of the first byte from o on that is no whitespace
TokenStart(o) ==
    CHOOSE s \in o..Len(input) :
        /\ \A i \in (o + 1)..s : input[i] \in Whitespace
        /\ s < Len(input) => input[s + 1] \notin Whitespace

NumberTokens ==
    pc \in {"lex", "recover"} =>
        LET s == TokenStart(pos)
            tok == next_token(input, pos, ModeHere)
        IN  /\ (/\ s < Len(input)
                /\ input[s + 1] \in Digits
                /\ ModeHere # OPERATOR_MODE)
                  => tok = Token(sym_number, s, NumberEnd(s))
            /\ tok.sym = sym_number =>
                  /\ tok.start = s
                  /\ tok.end = NumberEnd(s)
                  /\ IsNumberText(SubSeq(input, tok.start + 1, tok.end))

\* 1.2.3; : the number token is 1.2 and the second point follows it
NumberTokensWitness ==
    /\ pc = "parse"
    /\ input = <<"1", ".", "2", ".", "3", ";">>
    /\ Len(stack) = 1
    /\ lookahead = Token(sym_number, 0, 3)
    /\ errors = 0

\* 1.; : the number token is 1 and the point is left in the input
NumberBeforePointWitness ==
    /\ pc = "parse"
    /\ input = <<"1", ".", ";">>
    /\ Len(stack) = 1
    /\ lookahead = Token(sym_number, 0, 1)
    /\ errors = 0


(***************************************************************************)
(* C20.  String tokens.  A string token starts at a `"` and ends at the    *)
(* very next `"`: a backslash before a quote does not keep the string      *)
(* open, and newlines may occur inside.  When the input ends before a      *)
(* closing `"`, the lexer returns no token, not a part of the string.      *)
(***************************************************************************)
QUOTE == "\""

\* the 1-based positions of the quotes after the one at offset s
ClosingQuotes(s) == {i \in (s + 2)..Len(input) : input[i] = QUOTE}

\* the string token that starts at offset s, by the definition; a NUL
\* byte before the closing quote stops the lexer as the end of input does
HasStringAt(s) ==
    /\ ClosingQuotes(s) # {}
    /\ \A i \in (s + 2)..(Min(ClosingQuotes(s)) - 1) : input[i] # NUL

StringAt(s) == Token(sym_string, s, Min(ClosingQuotes(s)))

StringTokens ==
    pc \in {"lex", "recover"} =>
        LET s == TokenStart(pos)
            tok == next_token(input, pos, ModeHere)
        IN  /\ (/\ s < Len(input)
                /\ input[s + 1] = QUOTE
                /\ ModeHere # OPERATOR_MODE)
                  => IF HasStringAt(s) THEN tok = StringAt(s)
                     ELSE tok.sym = NoSymbol
            /\ tok.sym = sym_string =>
                  /\ tok.start = s
                  /\ tok.end >= s + 2
                  /\ input[s + 1] = QUOTE
                  /\ input[tok.end] = QUOTE
                  /\ \A i \in (s + 2)..(tok.end - 1) : input[i] # QUOTE

\* "\""; : the string ends at the quote behind the backslash
StringTokensWitness ==
    /\ pc = "parse"
    /\ input = <<"\"", "\\", "\"", "\"", ";">>
    /\ Len(stack) = 1
    /\ lookahead = Token(sym_string, 0, 3)
    /\ errors = 0

\* "a newline a; : no closing quote, the lexer returns no token at the
\* quote and recovery starts there
UnterminatedStringWitness ==
    /\ pc = "recover"
    /\ input = <<"\"", "a", "\n", "a", ";">>
    /\ pos = 0
    /\ errkids = <<>>
    /\ errors = 1
    /\ next_token(input, 0, OPERAND_MODE).sym = NoSymbol


(***************************************************************************)
(* C21.  Determinism.  As claimed: the table holds at most one action for  *)
(* every state and every lookahead terminal.  In the table: the entries    *)
(* of state 3 for the tokens that start a statement list two actions, the  *)
(* reduce of the repetition and a SHIFT_REPEAT; no entry lists more than   *)
(* one action that is not a SHIFT_REPEAT, and that one is the action the   *)
(* engine takes.                                                           *)
(***************************************************************************)
\* the actions of an entry that are not a SHIFT_REPEAT
LiveActions(actions) ==
    SelectSeq(actions, LAMBDA a : ~(a.type = "shift" /\ a.repetition))

\* the tokens a statement starts with
StatementOpeners ==
    LiteralSyms \cup PrefixOps \cup {anon_sym_print, anon_sym_LPAREN}

OneActionListed ==
    /\ \A s \in States : \A t \in Terminals :
          Len(ts_language_actions(s, t)) <= 1
    /\ pc = "parse" =>
          Len(ts_language_actions(Top.state, lookahead.sym)) <= 1

\* the entries that list two actions: a reduce, then a SHIFT_REPEAT
IsRepeatEntry(actions) ==
    /\ Len(actions) = 2
    /\ actions[1].type = "reduce"
    /\ actions[1].symbol = aux_sym_program_repeat1
    /\ actions[2].type = "shift" /\ actions[2].repetition

OneLiveActionInTable ==
    \A s \in States : \A t \in Terminals :
        LET actions == ts_language_actions(s, t)
        IN  /\ Len(LiveActions(actions)) <= 1
            /\ Len(actions) > 1 <=> (s = 3 /\ t \in StatementOpeners)
            /\ Len(actions) > 1 => IsRepeatEntry(actions)

OneLiveAction ==
    /\ OneLiveActionInTable
    /\ pc = "parse" =>
          LET actions == ts_language_actions(Top.state, lookahead.sym)
          IN  /\ Len(LiveActions(actions)) <= 1
              /\ CurrentAction = (IF LiveActions(actions) = <<>>
                                  THEN NoAction
                                  ELSE LiveActions(actions)[1])
              /\ Len(actions) > 1 => CurrentAction.type = "reduce"

\* 1 ; 1 ; print 1 ; : in state 3, for the lookahead `print`, the entry
\* lists the reduce of the repetition and a SHIFT_REPEAT
OneLiveActionWitness ==
    /\ pc = "parse"
    /\ InputSyms = <<sym_number, anon_sym_SEMI, sym_number, anon_sym_SEMI,
                     anon_sym_print, sym_number, anon_sym_SEMI>>
    /\ Top.state = 3
    /\ lookahead.sym = anon_sym_print
    /\ IsRepeatEntry(ts_language_actions(Top.state, lookahead.sym))
    /\ CurrentAction = REDUCE(aux_sym_program_repeat1, 2, 0)
    /\ errors = 0


(***************************************************************************)
(* C22.  The two tiers of the table behave as one full table.  For every   *)
(* state from LARGE_STATE_COUNT on, the offset in ts_small_parse_table_map *)
(* is the start of the row of the state, the groups of the row list no     *)
(* symbol twice, and the lookup through offset and groups is the function  *)
(* that maps a symbol to the value of the group that lists it, 0 when no   *)
(* group does: a function of state and symbol as the dense rows are.       *)
(***************************************************************************)
SmallStates == LARGE_STATE_COUNT..(STATE_COUNT - 1)

SmallRows ==
    (4 :> small_state_4) @@
    (5 :> small_state_5) @@
    (6 :> small_state_6) @@
    (7 :> small_state_7) @@
    (8 :> small_state_8) @@
    (9 :> small_state_9) @@
    (10 :> small_state_10) @@
    (11 :> small_state_11) @@
    (12 :> small_state_12) @@
    (13 :> small_state_13) @@
    (14 :> small_state_14) @@
    (15 :> small_state_15) @@
    (16 :> small_state_16) @@
    (17 :> small_state_17) @@
    (18 :> small_state_18) @@
    (19 :> small_state_19) @@
    (20 :> small_state_20) @@
    (21 :> small_state_21) @@
    (22 :> small_state_22) @@
    (23 :> small_state_23) @@
    (24 :> small_state_24) @@
    (25 :> small_state_25) @@
    (26 :> small_state_26) @@
    (27 :> small_state_27) @@
    (28 :> small_state_28) @@
    (29 :> small_state_29)

Symbols == 0..(SYMBOL_COUNT - 1)

RECURSIVE SumOfLengths(_, _)
SumOfLengths(rows, upto) ==
    IF upto < LARGE_STATE_COUNT THEN 0
    ELSE Len(rows[upto]) + SumOfLengths(rows, upto - 1)

\* the groups of a row, read from position i on: value, count, symbols
RECURSIVE GroupsFrom(_, _)
GroupsFrom(row, i) ==
    IF i + 1 > Len(row) THEN <<>>
    ELSE <<[value |-> row[i],
            symbols |-> SubSeq(row, i + 2, i + 1 + row[i + 1])]>>
         \o GroupsFrom(row, i + 2 + row[i + 1])

GroupsOf(row) == GroupsFrom(row, 2)

RECURSIVE GroupsLength(_)
GroupsLength(groups) ==
    IF groups = <<>> THEN 0
    ELSE 2 + Len(Head(groups).symbols) + GroupsLength(Tail(groups))

\* the row is its number of groups and then exactly that many groups
RowWellFormed(row) ==
    /\ Len(GroupsOf(row)) = row[1]
    /\ Len(row) = 1 + GroupsLength(GroupsOf(row))
    /\ \A g \in 1..Len(GroupsOf(row)) : GroupsOf(row)[g].symbols # <<>>

\* the groups that list the symbol
GroupsListing(row, symbol) ==
    {g \in 1..Len(GroupsOf(row)) :
        \E j \in 1..Len(GroupsOf(row)[g].symbols) :
            GroupsOf(row)[g].symbols[j] = symbol}

NoSymbolTwice(row) ==
    /\ \A symbol \in Symbols : Cardinality(GroupsListing(row, symbol)) <= 1
    /\ \A g \in 1..Len(GroupsOf(row)) :
          \A j, k \in 1..Len(GroupsOf(row)[g].symbols) :
              GroupsOf(row)[g].symbols[j] = GroupsOf(row)[g].symbols[k]
                  => j = k

\* the full table: one entry for every state and every symbol
FullTable(state, symbol) ==
    IF state < LARGE_STATE_COUNT
    THEN IF symbol \in DOMAIN ts_parse_table[state]
         THEN ts_parse_table[state][symbol] ELSE 0
    ELSE LET row == SmallRows[state]
             listing == GroupsListing(row, symbol)
         IN  IF listing = {} THEN 0
             ELSE GroupsOf(row)[CHOOSE g \in listing : TRUE].value

OffsetsAreRowStarts ==
    /\ DOMAIN ts_small_parse_table_map = SmallStates
    /\ \A s \in SmallStates :
          /\ ts_small_parse_table_map[s] = SumOfLengths(SmallRows, s - 1)
          /\ SubSeq(ts_small_parse_table,
                    ts_small_parse_table_map[s] + 1,
                    ts_small_parse_table_map[s] + Len(SmallRows[s]))
                 = SmallRows[s]
    /\ Len(ts_small_parse_table) = SumOfLengths(SmallRows, STATE_COUNT - 1)

TwoTierInTable ==
    /\ OffsetsAreRowStarts
    /\ \A s \in SmallStates :
          RowWellFormed(SmallRows[s]) /\ NoSymbolTwice(SmallRows[s])
    /\ \A s \in States : \A symbol \in Symbols :
          /\ ts_language_lookup(s, symbol) = FullTable(s, symbol)
          /\ symbol \in Terminals =>
                ts_language_lookup(s, symbol) \in DOMAIN ts_parse_actions
          /\ symbol \in Nonterminals => ts_language_lookup(s, symbol) \in States

TwoTierTable ==
    /\ TwoTierInTable
    /\ pc = "parse" =>
          /\ ts_language_lookup(Top.state, lookahead.sym)
                 = FullTable(Top.state, lookahead.sym)
          /\ CurrentAction
                 = ChosenAction(ts_parse_actions[FullTable(Top.state,
                                                           lookahead.sym)])

\* 1 + 1 ; : after the first 1 the state has a grouped row, and the
\* lookup for `+` finds the entry of its group
TwoTierTableWitness ==
    /\ pc = "parse"
    /\ InputSyms = <<sym_number, anon_sym_PLUS, sym_number, anon_sym_SEMI>>
    /\ Len(stack) = 2
    /\ Top.state \in SmallStates
    /\ lookahead.sym = anon_sym_PLUS
    /\ Cardinality(GroupsListing(SmallRows[Top.state], anon_sym_PLUS)) = 1
    /\ ts_language_lookup(Top.state, anon_sym_PLUS)
           = FullTable(Top.state, anon_sym_PLUS)
    /\ CurrentAction.type = "shift"


(***************************************************************************)
(* C23.  Reductions without children.  As claimed: every reduce action of  *)
(* the table pops at least one stack entry, so that every node made by a   *)
(* reduction has a child.  In the table: REDUCE(sym_program, 0) is the     *)
(* action of the start state on end of input; an input without statement   *)
(* is parsed to a program node without children and with an empty range.   *)
(* Every other reduction has children and takes its range from them.       *)
(***************************************************************************)
\* the node of a stack entry was made by a reduction
IsReduced(node) == node.sym \in Nonterminals

EveryReducePops ==
    /\ \A a \in ReduceActions : a.child_count >= 1
    /\ \A i \in 2..Len(stack) :
          IsReduced(stack[i].node) => stack[i].node.kids # <<>>

EMPTY_PROGRAM == REDUCE(sym_program, 0, 0)

EmptyProgramInTable ==
    /\ \A a \in ReduceActions : a.child_count = 0 <=> a = EMPTY_PROGRAM
    /\ \A s \in States : \A t \in Terminals :
          EMPTY_PROGRAM \in ActionsOf(s, t)
              <=> (s = START_STATE /\ t = ts_builtin_sym_end)

\* no byte of the input belongs to a token
NoTokenInInput == \A i \in 1..Len(input) : input[i] \in Whitespace

OnlyEmptyProgram ==
    /\ EmptyProgramInTable
    /\ \A i \in 2..Len(stack) :
          IsReduced(stack[i].node) =>
             LET node == stack[i].node
             IN  IF node.kids = <<>>
                 THEN /\ node.sym = sym_program
                      /\ node.start = node.end
                      /\ i = 2 /\ Len(stack) = 2
                      /\ stack[i].state = ACCEPT_STATE
                      /\ NoTokenInInput
                 ELSE /\ node.start = node.kids[1].start
                      /\ node.end = node.kids[Len(node.kids)].end
    /\ (pc = "done" /\ NoTokenInInput) => Root.kids = <<>>

\* whitespace only: the parse ends with a program node without children
OnlyEmptyProgramWitness ==
    /\ pc = "done"
    /\ input = <<" ", " ", "\r">>
    /\ Len(stack) = 2
    /\ Root.sym = sym_program
    /\ Root.kids = <<>>
    /\ Root.start = Root.end
    /\ errors = 0


(***************************************************************************)
(* C24.  The lookahead stays valid across a reduce.  Where a reduce is     *)
(* the action, the lexer run again at the same offset in the mode of the   *)
(* state that the goto puts on top returns the lookahead, kind and range:  *)
(* the token the engine goes on with is one that the mode of the new       *)
(* state produces.                                                         *)
(***************************************************************************)
\* the state on top after the reduce that is the current action
StateAfterReduce ==
    ts_language_next_state(
        stack[Len(stack) - CurrentAction.child_count].state,
        CurrentAction.symbol)

ReduceIsNext == pc = "parse" /\ CurrentAction.type = "reduce"

LookaheadValid ==
    /\ ReduceIsNext =>
          /\ next_token(input, pos, ts_lex_modes[StateAfterReduce])
                 = lookahead
          \* the mode changes at the reduce of the program only
          /\ ts_lex_modes[Top.state] # ts_lex_modes[StateAfterReduce]
                => /\ CurrentAction.symbol = sym_program
                   /\ lookahead.sym = ts_builtin_sym_end
    \* so that after every step of a parse the lookahead is the token of
    \* the mode of the state on top
    /\ pc = "parse" =>
          next_token(input, pos, ts_lex_modes[Top.state]) = lookahead

\* 1 ; : at the end of the input the program is reduced in state 2, whose
\* mode is that of a statement start, and the goto leads to the accepting
\* state, whose mode is that of the error state
LookaheadValidWitness ==
    /\ ReduceIsNext
    /\ InputSyms = <<sym_number, anon_sym_SEMI>>
    /\ CurrentAction = REDUCE(sym_program, 1, 0)
    /\ lookahead.sym = ts_builtin_sym_end
    /\ StateAfterReduce = ACCEPT_STATE
    /\ ts_lex_modes[Top.state] # ts_lex_modes[StateAfterReduce]
    /\ next_token(input, pos, ts_lex_modes[StateAfterReduce]) = lookahead


(***************************************************************************)
(* C25.  The comma.  `a , b` between two expressions is reduced to a       *)
(* binary_expression with the fields left and right, without error.  The   *)
(* comma associates to the left, and binds looser than every other         *)
(* operator, the ternary included: 1 , 2 ? 3 : 4 ; is                      *)
(* binary(1, `,`, ternary(2, 3, 4)) and 1 ? 2 : 3 , 4 ; is                 *)
(* binary(ternary(1, 2, 3), `,`, 4).                                       *)
(***************************************************************************)
\* the expression of the only statement of the input
TopExpression == VisibleKids(VisibleKids(Root)[1])[1]

CommaFields(node) ==
    /\ node.sym = sym_binary_expression
    /\ Len(node.kids) = 3
    /\ node.kids[2].sym = anon_sym_COMMA
    /\ HasField(node, field_left) /\ HasField(node, field_right)
    /\ ChildByField(node, field_left) = node.kids[1]
    /\ ChildByField(node, field_right) = node.kids[3]

IsLits(w, positions) == \A i \in positions : w[i] \in LiteralSyms

\* the parse of the statement w, for the forms of w with a comma
CommaOf(w) ==
    LET lit(i) == OperandShape(w[i])
        comma(l, r) == BinaryShape(l, anon_sym_COMMA, r)
    IN  /\ (/\ Len(w) = 4 /\ IsLits(w, {1, 3})
            /\ w[2] = anon_sym_COMMA /\ w[4] = anon_sym_SEMI)
              => /\ ParsesTo(comma(lit(1), lit(3)))
                 /\ CommaFields(TopExpression)
        /\ (/\ Len(w) = 6 /\ IsLits(w, {1, 3, 5})
            /\ w[2] = anon_sym_COMMA /\ w[4] \in InfixOps
            /\ w[6] = anon_sym_SEMI)
              => /\ CommaFields(TopExpression)
                 /\ IF w[4] = anon_sym_COMMA
                    THEN ParsesTo(comma(comma(lit(1), lit(3)), lit(5)))
                    ELSE ParsesTo(comma(lit(1),
                                        BinaryShape(lit(3), w[4], lit(5))))
        /\ (/\ Len(w) = 6 /\ IsLits(w, {1, 3, 5})
            /\ w[2] \in InfixOps /\ w[4] = anon_sym_COMMA
            /\ w[6] = anon_sym_SEMI)
              => /\ CommaFields(TopExpression)
                 /\ ParsesTo(comma(BinaryShape(lit(1), w[2], lit(3)),
                                   lit(5)))
        /\ (/\ Len(w) = 8 /\ IsLits(w, {1, 3, 5, 7})
            /\ w[2] = anon_sym_COMMA /\ w[4] = anon_sym_QMARK
            /\ w[6] = anon_sym_COLON /\ w[8] = anon_sym_SEMI)
              => /\ CommaFields(TopExpression)
                 /\ ParsesTo(comma(lit(1),
                                   TernaryShape(lit(3), lit(5), lit(7))))
        /\ (/\ Len(w) = 8 /\ IsLits(w, {1, 3, 5, 7})
            /\ w[2] = anon_sym_QMARK /\ w[4] = anon_sym_COLON
            /\ w[6] = anon_sym_COMMA /\ w[8] = anon_sym_SEMI)
              => /\ CommaFields(TopExpression)
                 /\ ParsesTo(comma(TernaryShape(lit(1), lit(3), lit(5)),
                                   lit(7)))
        /\ (/\ Len(w) = 5 /\ IsLits(w, {2, 4}) /\ w[1] \in PrefixOps
            /\ w[3] = anon_sym_COMMA /\ w[5] = anon_sym_SEMI)
              => /\ CommaFields(TopExpression)
                 /\ ParsesTo(comma(UnaryShape(w[1], lit(2)), lit(4)))

\* the top of the stack is a complete operand behind an operator or `:`
OperatorOperandComplete ==
    /\ Len(stack) >= 3
    /\ IsOperandNode(Top.node)
    /\ stack[Len(stack) - 1].node.kids = <<>>
    /\ stack[Len(stack) - 1].node.sym
           \in InfixOps \cup PrefixOps \cup {anon_sym_COLON}

CommaOperator ==
    /\ (pc = "parse" /\ lookahead.sym = anon_sym_COMMA) =>
          /\ Top.state \in AfterOperandStates
          /\ CurrentAction.type \in {"shift", "reduce"}
          /\ OperatorOperandComplete => CurrentAction.type = "reduce"
    /\ pc = "done" => CommaOf(InputSyms)

\* 1 , 1 ? 1 : 1 ; : the ternary is the right operand of the comma
CommaOperatorWitness ==
    /\ IsStatementOf(<<sym_number, anon_sym_COMMA, sym_number,
                       anon_sym_QMARK, sym_number, anon_sym_COLON,
                       sym_number>>)
    /\ ParsesTo(BinaryShape(TokenShape(sym_number), anon_sym_COMMA,
                            TernaryShape(TokenShape(sym_number),
                                         TokenShape(sym_number),
                                         TokenShape(sym_number))))
    /\ CommaFields(TopExpression)
    /\ errors = 0


(***************************************************************************)
(* C26.  The goto is always defined.  Where a reduce is the action, the    *)
(* state that is on top once the children are popped has a goto entry for  *)
(* the nonterminal reduced: a reduce never leaves the parser without a     *)
(* next state.  The nonterminals reduced are program, program_repeat1,     *)
(* the two statements, and the binary, ternary, unary and group            *)
(* expressions and boolean.                                                *)
(***************************************************************************)
ReducedNonterminals ==
    {sym_program, aux_sym_program_repeat1, sym_expression_statement,
     sym_print_statement, sym_binary_expression, sym_ternary_expression,
     sym_unary_expression, sym_group_expression, sym_boolean}

\* the lookup returns 0 where the row has no entry
GotoDefined ==
    /\ {a.symbol : a \in ReduceActions} = ReducedNonterminals
    /\ ReduceIsNext =>
          /\ CurrentAction.child_count < Len(stack)
          /\ CurrentAction.symbol \in ReducedNonterminals
          /\ StateAfterReduce # 0
          /\ StateAfterReduce \in States
    /\ \A i \in 2..Len(stack) :
          /\ stack[i].state # 0
          /\ IsReduced(stack[i].node) =>
                stack[i].state
                    = ts_language_next_state(stack[i - 1].state,
                                             stack[i].node.sym)

\* nil , true ; : boolean is reduced with the state behind `,` below it,
\* and that state has a goto on boolean
GotoDefinedWitness ==
    /\ ReduceIsNext
    /\ InputSyms = <<sym_nil, anon_sym_COMMA, anon_sym_true, anon_sym_SEMI>>
    /\ CurrentAction = REDUCE(sym_boolean, 1, 0)
    /\ stack[Len(stack) - 1].node.sym = anon_sym_COMMA
    /\ StateAfterReduce # 0
    /\ ts_lex_modes[StateAfterReduce] = OPERATOR_MODE


(***************************************************************************)
(* C27.  The stack does not grow with the number of statements.  State 3,  *)
(* on top when a second statement-level entry is complete, has the reduce  *)
(* of the repetition over two children as its action for every token: the  *)
(* two entries are folded into one before the first token of the next      *)
(* statement is shifted.  At a statement boundary the stack holds the      *)
(* start state and at most two statement-level entries.                    *)
(***************************************************************************)
FOLD == REDUCE(aux_sym_program_repeat1, 2, 0)

\* the entries of statements, of repetitions of statements and of error
\* nodes: those whose state is a state where a statement starts
StatementLevel ==
    {i \in 2..Len(stack) : stack[i].state \in StatementStartStates}

AtStatementBoundary == Top.state \in StatementStartStates

FoldInTable ==
    /\ StatementStartStates = {START_STATE, 2, 3}
    /\ \A t \in Terminals :
          LET actions == ts_language_actions(3, t)
          IN  /\ actions # <<>> => ChosenAction(actions) = FOLD
              /\ actions # <<>>
                    <=> t \in StatementOpeners \cup {ts_builtin_sym_end}
    \* state 2 is entered from the start state only, state 3 from 2 and 3
    /\ \A s \in StatementStartStates :
          \A n \in {sym__statement, aux_sym_program_repeat1} :
              ts_language_next_state(s, n)
                  = (IF s = START_STATE THEN 2 ELSE 3)

BoundedStack ==
    /\ FoldInTable
    /\ (pc = "parse" /\ Top.state = 3) => CurrentAction = FOLD
    /\ (pc = "parse" /\ AtStatementBoundary
          /\ CurrentAction.type = "shift") => Len(stack) <= 2
    /\ errors = 0 =>
          /\ Cardinality(StatementLevel) <= 2
          /\ AtStatementBoundary => Len(stack) <= 3
    \* a recovery that starts in state 3 adds its error node as an entry
    \* more, which the reduce folds at the next token
    /\ Cardinality(StatementLevel) <= 2 + errors

\* 1 ; 1 ; print 1 ; : the two statements are folded into one entry when
\* `print` is shifted
BoundedStackWitness ==
    /\ pc = "parse"
    /\ InputSyms = <<sym_number, anon_sym_SEMI, sym_number, anon_sym_SEMI,
                     anon_sym_print, sym_number, anon_sym_SEMI>>
    /\ Len(stack) = 2
    /\ Top.node.sym = aux_sym_program_repeat1
    /\ Len(Top.node.kids) = 2
    /\ lookahead.sym = anon_sym_print
    /\ CurrentAction.type = "shift"
    /\ errors = 0


(***************************************************************************)
(* C28.  Keywords are matched without a word boundary.  In the mode of a   *)
(* statement start and of an expected operand the letters of print, true,  *)
(* false and nil are that keyword whatever follows them: print1; is the    *)
(* print statement of the number 1, and nil1 is nil and then the lexing    *)
(* of 1.  A proper prefix of a keyword, such as tru, is no token.          *)
(***************************************************************************)
\* the word w is written in the input from offset o on
StartsWith(o, w) ==
    /\ o + Len(w) <= Len(input)
    /\ SubSeq(input, o + 1, o + Len(w)) = w

KeywordLetters == {Spelling[k][1] : k \in Keywords}

KeywordsAt(o) == {k \in Keywords : StartsWith(o, Spelling[k])}

\* print l ; without whitespace, l a literal
IsPrintOfLiteral(l) ==
    input = Spelling[anon_sym_print] \o Spelling[l] \o <<";">>

KeywordTokens ==
    /\ (pc \in {"lex", "recover"} /\ ModeHere # OPERATOR_MODE) =>
          LET s == TokenStart(pos)
              tok == next_token(input, pos, ModeHere)
          IN  /\ \A k \in KeywordsAt(s) :
                    tok = Token(k, s, s + Len(Spelling[k]))
              /\ (/\ s < Len(input)
                  /\ input[s + 1] \in KeywordLetters
                  /\ KeywordsAt(s) = {}) => tok.sym = NoSymbol
              /\ tok.sym \in Keywords =>
                    SubSeq(input, tok.start + 1, tok.end) = Spelling[tok.sym]
    /\ \A l \in LiteralSyms :
          (pc = "done" /\ IsPrintOfLiteral(l)) =>
             /\ Shape(Root) = ProgramShape(<<PrintShape(OperandShape(l))>>)
             /\ errors = 0

\* print1; is parsed to the print statement of the number 1
KeywordTokensWitness ==
    /\ pc = "done"
    /\ input = <<"p", "r", "i", "n", "t", "1", ";">>
    /\ Shape(Root) = ProgramShape(<<PrintShape(TokenShape(sym_number))>>)
    /\ Leaves(Root)[1] = Leaf(Token(anon_sym_print, 0, 5))
    /\ Leaves(Root)[2] = Leaf(Token(sym_number, 5, 6))
    /\ errors = 0

\* nil1 : the token is nil, and the 1 is lexed after it
KeywordBeforeDigitWitness ==
    /\ pc = "parse"
    /\ input = <<"n", "i", "l", "1">>
    /\ Len(stack) = 1
    /\ lookahead = Token(sym_nil, 0, 3)

\* tru; : no token at the start of the input, recovery starts there
KeywordPrefixWitness ==
    /\ pc = "recover"
    /\ input = <<"t", "r", "u", ";">>
    /\ pos = 0
    /\ errkids = <<>>
    /\ errors = 1

=============================================================================
